---- MODULE Spec2Model ----
(***************************************************************************)
(* Model of kaiten-automation: the rate-limit-aware request client, the    *)
(* field resolver, the classification engine, the update reconciler, the   *)
(* batch sweeps and the webhook card-id resolver.                          *)
(*                                                                         *)
(* Conventions.                                                            *)
(*  - A Python str is a sequence of tokens.  A token is an atomic run of   *)
(*    characters: " " (whitespace), "id_" (the field-id prefix), a decimal *)
(*    numeral ("7", "1001"), "." / "-" or a word.  Two Python strings are  *)
(*    equal iff their token sequences are equal.                           *)
(*  - Labels are transliterated to ASCII ("Zoloto" for the Cyrillic label  *)
(*    of calculate_rating_kachestva, and so on).                           *)
(*  - A Python float score is kept in half units: 4.5 is 9, 13 is 26.      *)
(*  - A Python value is a record [t, n, s, items]: t is the type tag,      *)
(*    n the number (int value, float half units, bool 0/1), s the tokens   *)
(*    of a str, items the elements of a list or dict as [k, v] records.    *)
(***************************************************************************)
EXTENDS Integers, Sequences, FiniteSets, TLC

VARIABLES
    card,           \* the card under classification / extraction
    parameters,     \* result of calculate_all_parameters, NoParams before
    field_id,       \* extraction: the field identifier looked up
    shapes,         \* extraction: the three single-shape cards
    extracted,      \* extraction: results per shape
    attempt,        \* _make_request_with_retry: loop index
    rpc,            \* _make_request_with_retry: "idle" | "run" | "returned" | "raised"
    trace,          \* _make_request_with_retry: requests and sleeps, in order
    outcome,        \* _make_request_with_retry: what was returned or raised
    upc,            \* update_card_parameters: position
    ucard,          \* update_card_parameters: the fetched card
    options,        \* update_card_parameters: select-values the API serves
    fidx,           \* update_card_parameters: index into fields_to_update
    properties,     \* update_card_parameters: payload being built
    select_values_cache, \* update_card_parameters: local cache
    http,           \* update_card_parameters: API requests issued, in order
    success,        \* update_card_parameters: return value
    mismatches,     \* update_card_parameters: warnings of the verification re-read
    sweep,          \* batch: which of the three loops runs
    cards,          \* batch: the fetched list of cards
    idx,            \* batch: loop position (1-based index of the next card)
    success_count,  \* batch
    error_count,    \* batch
    processed,      \* batch: ids handed to process_card, in order
    bpc,            \* batch: "loop" | "done" | "aborted"
    event,          \* handle_http_trigger: the incoming event
    response,       \* handle_http_trigger: the returned response
    ucp_calls,      \* handle_http_trigger: card ids passed to update_card_parameters
    scard,          \* CardStatusAutomation: the card whose status is determined
    card_total,     \* CardStatusAutomation: result of calculate_sum
    status,         \* CardStatusAutomation: result of determine_status, <<>> before
    kclient,        \* client operation: the KaitenClient class in use
    kop,            \* client operation: the method called
    kresult,        \* client operation: what the method gave, "pending" before
    kcache,         \* KaitenClient._select_values_cache of one client
    klog            \* KaitenClient.get_select_values: the calls made, in order

classifyVars == <<card, parameters>>
extractVars  == <<field_id, shapes, extracted>>
retryVars    == <<attempt, rpc, trace, outcome>>
updateVars   == <<upc, ucard, options, fidx, properties, select_values_cache, http, success,
                  mismatches>>
batchVars    == <<sweep, cards, idx, success_count, error_count, processed, bpc>>
webhookVars  == <<event, response, ucp_calls>>
statusVars   == <<scard, card_total, status>>
clientVars   == <<kclient, kop, kresult>>
cacheVars    == <<kcache, klog>>
vars == <<classifyVars, extractVars, retryVars, updateVars, batchVars, webhookVars, statusVars, clientVars, cacheVars>>

(***************************************************************************)
(* Python values                                                           *)
(***************************************************************************)
PyNone      == [t |-> "none",  n |-> 0, s |-> <<>>, items |-> <<>>]
PyInt(k)    == [t |-> "int",   n |-> k, s |-> <<>>, items |-> <<>>]
PyFloat(h)  == [t |-> "float", n |-> h, s |-> <<>>, items |-> <<>>]
PyBool(b)   == [t |-> "bool",  n |-> IF b THEN 1 ELSE 0, s |-> <<>>, items |-> <<>>]
PyStr(toks) == [t |-> "str",   n |-> 0, s |-> toks, items |-> <<>>]
Item(key, val) == [k |-> key, v |-> val]
PyList(vals) == [t |-> "list", n |-> 0, s |-> <<>>,
                 items |-> [i \in DOMAIN vals |-> Item("", vals[i])]]
PyDict(its)  == [t |-> "dict", n |-> 0, s |-> <<>>, items |-> its]

\* Python truthiness of a value (bool(x)).
Truthy(x) ==
    CASE x.t = "none"  -> FALSE
      [] x.t = "int"   -> x.n # 0
      [] x.t = "float" -> x.n # 0
      [] x.t = "bool"  -> x.n # 0
      [] x.t = "str"   -> x.s # <<>>
      [] OTHER         -> x.items # <<>>

(***************************************************************************)
(* Python strings as token sequences                                       *)
(***************************************************************************)
\* The integers that occur as numerals in the modelled strings.
MaxNumeral == 12
NumeralPool == (0..MaxNumeral) \cup {999, 1000, 1001, 2002, 3003}

IsNumeral(tok) == \E k \in NumeralPool : ToString(k) = tok
NumeralValue(tok) == CHOOSE k \in NumeralPool : ToString(k) = tok

\* str.lower() on one token: the cased words the model uses.
LowerTok(tok) ==
    CASE tok \in {"Da", "DA", "dA"}          -> "da"
      [] tok \in {"Yes", "YES", "yEs"}       -> "yes"
      [] tok \in {"True", "TRUE"}            -> "true"
      [] tok \in {"False", "FALSE"}          -> "false"
      [] tok \in {"Net", "NET"}              -> "net"
      [] tok \in {"No", "NO"}                -> "no"
      [] tok \in {"None"}                    -> "none"
      [] tok \in {"Zoloto", "ZOLOTO"}        -> "zoloto"
      [] tok \in {"Serebro", "SEREBRO"}      -> "serebro"
      [] tok \in {"Bronza", "BRONZA"}        -> "bronza"
      [] tok \in {"Ne"}                      -> "ne"
      [] tok \in {"Hardkor"}                 -> "hardkor"
      [] tok \in {"Massovost"}               -> "massovost"
      [] tok \in {"Prakticheskij"}           -> "prakticheskij"
      [] tok \in {"Vdohnovenie/Obzor"}       -> "vdohnovenie/obzor"
      [] tok \in {"Hedlajner", "HEDLAJNER"}  -> "hedlajner"
      [] tok \in {"Horoshij"}                -> "horoshij"
      [] tok \in {"Spiker"}                  -> "spiker"
      [] tok \in {"Ekspert", "EKSPERT"}      -> "ekspert"
      [] tok \in {"Dlya"}                    -> "dlya"
      [] tok \in {"Kross", "KROSS"}          -> "kross"
      [] tok \in {"Nisha", "NISHA"}          -> "nisha"
      [] tok \in {"Vysokaya", "VYSOKAYA"}    -> "vysokaya"
      [] tok \in {"vsej", "VSEJ"}            -> "vsej"
      [] tok \in {"kuhni", "KUHNI"}          -> "kuhni"
      [] tok \in {"I"}                       -> "i"
      [] tok \in {"T"}                       -> "t"
      [] OTHER                               -> tok

Lower(s) == [i \in DOMAIN s |-> LowerTok(s[i])]

RECURSIVE LStrip(_)
LStrip(s) == IF s # <<>> /\ Head(s) = " " THEN LStrip(Tail(s)) ELSE s
RECURSIVE RStrip(_)
RStrip(s) == IF s # <<>> /\ s[Len(s)] = " " THEN RStrip(SubSeq(s, 1, Len(s) - 1)) ELSE s
Strip(s) == RStrip(LStrip(s))

\* str(x) for the values the code formats.
StrOfInt(k) == IF k < 0 THEN <<"-", ToString(0 - k)>> ELSE <<ToString(k)>>
StrOfFloat(h) ==
    LET a == IF h < 0 THEN 0 - h ELSE h
        body == <<ToString(a \div 2), ".", IF a % 2 = 0 THEN "0" ELSE "5">>
    IN IF h < 0 THEN <<"-">> \o body ELSE body
RECURSIVE StrOfItems(_)
StrOf(x) ==
    CASE x.t = "none"  -> <<"None">>
      [] x.t = "int"   -> StrOfInt(x.n)
      [] x.t = "float" -> StrOfFloat(x.n)
      [] x.t = "bool"  -> IF x.n = 1 THEN <<"True">> ELSE <<"False">>
      [] x.t = "str"   -> x.s
      [] x.t = "list"  -> <<"[">> \o StrOfItems(x.items) \o <<"]">>
      [] OTHER         -> <<"{", "}">>
StrOfItems(its) ==
    IF its = <<>> THEN <<>>
    ELSE LET h == Head(its).v
             one == IF h.t = "int" THEN StrOfInt(h.n)
                    ELSE IF h.t = "str" THEN <<"'">> \o h.s \o <<"'">>
                    ELSE <<"?">>
         IN IF Len(its) = 1 THEN one ELSE one \o <<",", " ">> \o StrOfItems(Tail(its))

\* int(s) for a str: surrounding whitespace and a sign are accepted, then one
\* decimal numeral; anything else is ValueError.
ParseInt(s) ==
    LET b == Strip(s)
        neg == b # <<>> /\ Head(b) = "-"
        d == IF neg THEN Tail(b) ELSE b
    IN IF Len(d) = 1 /\ IsNumeral(d[1])
       THEN [ok |-> TRUE,  n |-> IF neg THEN 0 - NumeralValue(d[1]) ELSE NumeralValue(d[1])]
       ELSE [ok |-> FALSE, n |-> 0]

\* float(s) for a str, in half units: as ParseInt, with an optional ".0" or ".5".
ParseFloat(s) ==
    LET b == Strip(s)
        neg == b # <<>> /\ Head(b) = "-"
        d == IF neg THEN Tail(b) ELSE b
        whole == Len(d) = 1 /\ IsNumeral(d[1])
        frac == Len(d) = 3 /\ IsNumeral(d[1]) /\ d[2] = "." /\ d[3] \in {"0", "5"}
        mag == IF whole THEN 2 * NumeralValue(d[1])
               ELSE IF frac THEN 2 * NumeralValue(d[1]) + (IF d[3] = "5" THEN 1 ELSE 0)
               ELSE 0
    IN [ok |-> whole \/ frac, n |-> IF neg THEN 0 - mag ELSE mag]

\* str.isdigit(): non-empty and decimal digits only.
IsDigit(s) == Len(s) = 1 /\ IsNumeral(s[1])

\* s.replace('id_', '') and s.startswith('id_').
RemoveIdPrefix(s) == SelectSeq(s, LAMBDA tok : tok # "id_")
StartsWithId(s) == s # <<>> /\ Head(s) = "id_"

(***************************************************************************)
(* Cards                                                                   *)
(*   custom_properties: list of descriptors {id, property_id, name, type,  *)
(*   value}; properties: mapping field key -> value; top: the ad hoc       *)
(*   top-level keys of the card (besides id, title and the two above).     *)
(***************************************************************************)
Descriptor(i, pid, nm, ty, val) ==
    [id |-> i, property_id |-> pid, name |-> nm, type |-> ty, value |-> val]

Card(hasCp, cp, hasProps, props, top) ==
    [has_cp |-> hasCp, custom_properties |-> cp,
     has_props |-> hasProps, props |-> props, top |-> top]

EmptyCard == Card(FALSE, <<>>, FALSE, <<>>, <<>>)

\* key in mapping / mapping[key] for a mapping kept as a sequence of items.
HasKey(its, key) == \E i \in DOMAIN its : its[i].k = key
Lookup(its, key) == its[CHOOSE i \in DOMAIN its : its[i].k = key].v
\* mapping.get(key)
Get(its, key) == IF HasKey(its, key) THEN Lookup(its, key) ELSE PyNone

(***************************************************************************)
(* ConferenceProposalEvaluator: configuration                              *)
(***************************************************************************)
field_aktualnost       == PyStr(<<"id_", "1">>)
field_novizna          == PyStr(<<"id_", "2">>)
field_opyt_spikera     == PyStr(<<"id_", "3">>)
field_primenimost      == PyStr(<<"id_", "4">>)
field_harizma          == PyStr(<<"id_", "5">>)
field_influencer       == PyStr(<<"id_", "6">>)
field_massovost        == PyStr(<<"id_", "7">>)

(***************************************************************************)
(* ConferenceProposalEvaluator: field resolver (index.py)                  *)
(***************************************************************************)
\* The first descriptor, in list order, that extract_field_value accepts.
EfvMatches(prop, fid) ==
    \/ StrOf(prop.id) = StrOf(fid)
    \/ StrOf(prop.property_id) = StrOf(fid)
    \/ prop.name = fid

extract_field_value(c, fid) ==
    IF ~Truthy(fid) THEN PyNone
    ELSE IF c.has_cp /\ \E i \in DOMAIN c.custom_properties :
                            EfvMatches(c.custom_properties[i], fid)
    THEN c.custom_properties[
            CHOOSE i \in DOMAIN c.custom_properties :
                /\ EfvMatches(c.custom_properties[i], fid)
                /\ \A j \in 1..(i - 1) : ~EfvMatches(c.custom_properties[j], fid)].value
    ELSE IF c.has_props /\ HasKey(c.props, fid.s) THEN Lookup(c.props, fid.s)
    ELSE IF HasKey(c.top, fid.s) THEN Lookup(c.top, fid.s)
    ELSE PyNone

\* float(value) with ValueError/TypeError mapped to 0.0, in half units.
FloatOr0(value) ==
    CASE value.t = "int"   -> 2 * value.n
      [] value.t = "float" -> value.n
      [] value.t = "bool"  -> 2 * value.n
      [] value.t = "str"   -> IF ParseFloat(value.s).ok THEN ParseFloat(value.s).n ELSE 0
      [] OTHER             -> 0

extract_numeric_value(c, fid) ==
    LET value == extract_field_value(c, fid)
    IN IF value.t = "none" THEN 0 ELSE FloatOr0(value)

\* None is PyNone, otherwise the str.
extract_text_value(c, fid) ==
    LET value == extract_field_value(c, fid)
    IN IF value.t = "none" THEN PyNone ELSE PyStr(StrOf(value))

(***************************************************************************)
(* ConferenceProposalEvaluator: classification engine (index.py)           *)
(***************************************************************************)
Zoloto          == <<"Zoloto">>
Serebro         == <<"Serebro">>
Bronza          == <<"Bronza">>
NeOpredelen     == <<"Ne", " ", "opredelen">>
Hardkor         == <<"Hardkor">>
Massovost       == <<"Massovost">>
PrakticheskijKejs == <<"Prakticheskij", " ", "kejs">>
VdohnovenieObzor  == <<"Vdohnovenie/Obzor">>
Hedlajner       == <<"Hedlajner">>
HoroshijSpiker  == <<"Horoshij", " ", "Spiker">>
Ekspert         == <<"Ekspert">>
DlyaVseh        == <<"Dlya", " ", "vseh">>
Kross           == <<"Kross">>
Nisha           == <<"Nisha">>

\* n as a float score, in half units.
Score(k) == 2 * k

RatingStrict(c) ==
    LET aktualnost == extract_numeric_value(c, field_aktualnost)
        novizna    == extract_numeric_value(c, field_novizna)
        opyt       == extract_numeric_value(c, field_opyt_spikera)
        total      == aktualnost + novizna + opyt
    IN IF total > Score(13)
          \/ (aktualnost >= Score(4) /\ novizna >= Score(4) /\ opyt >= Score(4))
       THEN Zoloto
       ELSE IF total >= Score(9)
               \/ (aktualnost >= Score(3) /\ novizna >= Score(3) /\ opyt >= Score(3))
       THEN Serebro
       ELSE Bronza

calculate_rating_kachestva(c) ==
    LET aktualnost == extract_numeric_value(c, field_aktualnost)
        novizna    == extract_numeric_value(c, field_novizna)
        opyt       == extract_numeric_value(c, field_opyt_spikera)
        total      == aktualnost + novizna + opyt
    IN IF total >= Score(13)
          \/ (aktualnost >= Score(4) /\ novizna >= Score(4) /\ opyt >= Score(4))
       THEN Zoloto
       ELSE IF total >= Score(9)
               \/ (aktualnost >= Score(3) /\ novizna >= Score(3) /\ opyt >= Score(3))
       THEN Serebro
       ELSE Bronza

TipKontentaReachIgnored(c) ==
    LET primenimost == extract_numeric_value(c, field_primenimost)
    IN CASE primenimost = Score(5) -> Massovost
         [] primenimost \in {Score(3), Score(4)} -> PrakticheskijKejs
         [] primenimost \in {Score(1), Score(2)} -> VdohnovenieObzor
         [] OTHER -> NeOpredelen

calculate_tip_kontenta(c) ==
    LET primenimost == extract_numeric_value(c, field_primenimost)
        massovost   == extract_numeric_value(c, field_massovost)
    IN IF primenimost = 0 THEN NeOpredelen
       ELSE IF primenimost = Score(5) /\ massovost <= Score(2) THEN Hardkor
       ELSE IF primenimost = Score(5) /\ massovost > Score(2) THEN Massovost
       ELSE IF primenimost = Score(4) \/ primenimost = Score(3) THEN PrakticheskijKejs
       ELSE IF primenimost = Score(1) \/ primenimost = Score(2) THEN VdohnovenieObzor
       ELSE NeOpredelen

\* influencer.lower() in ("da", "yes", "true", "1")
InfluencerWords == {<<"da">>, <<"yes">>, <<"true">>, <<"1">>}

calculate_uroven_spikera(c) ==
    LET harizma    == extract_numeric_value(c, field_harizma)
        influencer == extract_text_value(c, field_influencer)
    IN IF harizma >= Score(5) /\ Truthy(influencer)
          /\ Lower(influencer.s) \in InfluencerWords
       THEN Hedlajner
       ELSE IF harizma >= Score(4) THEN HoroshijSpiker
       ELSE IF harizma >= Score(1) THEN Ekspert
       ELSE NeOpredelen

OhvatAtLeast(c) ==
    LET massovost == extract_numeric_value(c, field_massovost)
    IN IF massovost = 0 THEN NeOpredelen
       ELSE IF massovost >= Score(4) THEN DlyaVseh
       ELSE IF massovost >= Score(3) THEN Kross
       ELSE Nisha

calculate_ohvat(c) ==
    LET massovost == extract_numeric_value(c, field_massovost)
    IN IF massovost = 0 THEN NeOpredelen
       ELSE IF massovost = Score(4) \/ massovost = Score(5) THEN DlyaVseh
       ELSE IF massovost = Score(3) THEN Kross
       ELSE IF massovost = Score(1) \/ massovost = Score(2) THEN Nisha
       ELSE NeOpredelen

calculate_all_parameters(c) ==
    [rating_kachestva |-> calculate_rating_kachestva(c),
     tip_kontenta     |-> calculate_tip_kontenta(c),
     uroven_spikera   |-> calculate_uroven_spikera(c),
     ohvat            |-> calculate_ohvat(c)]

NoParams ==
    [rating_kachestva |-> <<>>, tip_kontenta |-> <<>>,
     uroven_spikera |-> <<>>, ohvat |-> <<>>]

(***************************************************************************)
(* Idle values: a specification leaves the other components' variables at  *)
(* these.                                                                   *)
(***************************************************************************)
IdleClassify == card = EmptyCard /\ parameters = NoParams
IdleExtract  == field_id = PyNone /\ shapes = <<>> /\ extracted = <<>>
IdleRetry    ==
    /\ attempt = 0 /\ rpc = "idle" /\ trace = <<>>
    /\ outcome = [kind |-> "none", status |-> 0, exc_response |-> 0]
IdleUpdate   ==
    /\ upc = "idle" /\ ucard = EmptyCard /\ options = <<>> /\ fidx = 0
    /\ properties = <<>> /\ select_values_cache = <<>> /\ http = <<>>
    /\ success = FALSE /\ mismatches = 0
IdleBatch    ==
    /\ sweep = "none" /\ cards = <<>> /\ idx = 0 /\ success_count = 0
    /\ error_count = 0 /\ processed = <<>> /\ bpc = "idle"
NoResponse   == [statusCode |-> 0, error |-> "", card_id |-> PyNone]
IdleStatus   ==
    scard = EmptyCard /\ card_total = [raised |-> FALSE, n |-> 0] /\ status = <<>>
IdleClient   ==
    kclient = "idle" /\ kop = "idle" /\ kresult = "pending"
IdleCache    == kcache = <<>> /\ klog = <<>>
IdleWebhook  == event = PyNone /\ response = NoResponse /\ ucp_calls = <<>>

(***************************************************************************)
(* Specification SpecClassify: calculate_all_parameters applied to cards   *)
(* whose criteria are drawn from bounded sets.                             *)
(***************************************************************************)
\* Largest criterion score of the drawn cards, in half units (10 is 5.0).
MaxScore2 == 10
Scores2 == 0..MaxScore2

\* The select options the API serves for the influencer property.
InfluencerOptions ==
    <<[id |-> PyInt(7), value |-> PyStr(<<"Da">>)],
      [id |-> PyInt(8), value |-> PyStr(<<"Net">>)]>>

\* The encodings of the influencer flag seen in cards.
InfluencerValues ==
    {PyStr(<<w>>) : w \in {"Da", "da", "DA", "yes", "Yes", "YES", "true", "True",
                           "1", "0", "Net", "no", "False"}}
    \cup {PyStr(<<" ", "yes">>), PyStr(<<>>), PyNone}
    \cup {PyBool(TRUE), PyBool(FALSE), PyInt(1), PyInt(0), PyInt(2)}
    \cup {PyList(<<PyInt(7)>>), PyList(<<PyInt(8)>>)}

PropsCard(its) == Card(FALSE, <<>>, TRUE, its, <<>>)

RatingCards ==
    {PropsCard(<<Item(field_aktualnost.s, PyFloat(a)),
                 Item(field_novizna.s, PyFloat(b)),
                 Item(field_opyt_spikera.s, PyFloat(c))>>) :
        a \in Scores2, b \in Scores2, c \in Scores2}

TipCards ==
    {PropsCard(<<Item(field_primenimost.s, p), Item(field_massovost.s, m)>>) :
        p \in {PyFloat(h) : h \in Scores2} \cup {PyInt(k) : k \in 0..6},
        m \in {PyFloat(h) : h \in Scores2} \cup {PyInt(k) : k \in 0..6}}

SpikerCards ==
    {PropsCard(<<Item(field_harizma.s, PyFloat(h)), Item(field_influencer.s, f)>>) :
        h \in Scores2, f \in InfluencerValues}

\* Cards of a board whose criteria are select fields: every criterion holds
\* the one-element list of the chosen option id.
CriterionFields ==
    <<field_aktualnost, field_novizna, field_opyt_spikera, field_primenimost,
      field_harizma, field_massovost>>
SelectCard(ids) ==
    PropsCard([i \in 1..6 |-> Item(CriterionFields[i].s, PyList(<<PyInt(ids[i])>>))])
SelectCards ==
    {SelectCard(<<a, a, b, p, a, m>>) : a \in 3..5, b \in 3..5, p \in {1, 3, 5}, m \in {1, 3, 5}}

ClassifyCards == RatingCards \cup TipCards \cup SpikerCards \cup SelectCards

InitClassify ==
    /\ card \in ClassifyCards
    /\ parameters = NoParams
    /\ IdleExtract /\ IdleRetry /\ IdleUpdate /\ IdleBatch /\ IdleWebhook /\ IdleStatus /\ IdleClient /\ IdleCache

Classify ==
    /\ parameters = NoParams
    /\ parameters' = calculate_all_parameters(card)
    /\ UNCHANGED <<card, extractVars, retryVars, updateVars, batchVars, webhookVars, statusVars, clientVars, cacheVars>>

NextClassify == Classify

SpecClassify == InitClassify /\ [][NextClassify]_vars

\* The criterion as the card states it, in half units (numeric encodings).
IsNumber(v) == v.t \in {"int", "float"}
Raw(c, fid) == Get(c.props, fid.s)
RawScore(c, fid) ==
    LET v == Raw(c, fid) IN IF v.t = "int" THEN 2 * v.n ELSE v.n

Classified == parameters # NoParams

\* C1: for every criterion triple (a, b, c), calculate_rating_kachestva returns
\* Zoloto (Gold) iff a+b+c >= 13 or all three are >= 4; Serebro (Silver) iff it
\* is not Gold and (a+b+c >= 9 or all three are >= 3); Bronza (Bronze) otherwise.
C1_RatingRule ==
    (Classified /\ card \in RatingCards) =>
        LET a == RawScore(card, field_aktualnost)
            b == RawScore(card, field_novizna)
            c == RawScore(card, field_opyt_spikera)
            gold == a + b + c >= 26 \/ (a >= 8 /\ b >= 8 /\ c >= 8)
            silver == ~gold /\ (a + b + c >= 18 \/ (a >= 6 /\ b >= 6 /\ c >= 6))
        IN /\ (parameters.rating_kachestva = Zoloto) <=> gold
           /\ (parameters.rating_kachestva = Serebro) <=> silver
           /\ (parameters.rating_kachestva = Bronza) <=> (~gold /\ ~silver)

\* C1 witness: the boundary triple (4.5, 4.5, 4) with sum exactly 13 was
\* classified Gold.
C1_Witness ==
    /\ Classified /\ card \in RatingCards
    /\ RawScore(card, field_aktualnost) = 9
    /\ RawScore(card, field_novizna) = 9
    /\ RawScore(card, field_opyt_spikera) = 8
    /\ parameters.rating_kachestva = Zoloto

\* C9: for every (applicability, reach) pair calculate_tip_kontenta returns
\* Ne opredelen (Undetermined) when applicability = 0; Hardkor when
\* applicability = 5 and reach <= 2; Massovost (Mass) when applicability = 5
\* and reach > 2; Prakticheskij kejs when applicability is 3 or 4;
\* Vdohnovenie/Obzor when applicability is 1 or 2; Ne opredelen for every
\* other applicability.
C9_TipKontentaRule ==
    (Classified /\ card \in TipCards) =>
        LET p == RawScore(card, field_primenimost)
            m == RawScore(card, field_massovost)
            t == parameters.tip_kontenta
        IN /\ p = 0 => t = NeOpredelen
           /\ (p = 10 /\ m <= 4) => t = Hardkor
           /\ (p = 10 /\ m > 4) => t = Massovost
           /\ p \in {6, 8} => t = PrakticheskijKejs
           /\ p \in {2, 4} => t = VdohnovenieObzor
           /\ p \notin {0, 2, 4, 6, 8, 10} => t = NeOpredelen

\* C9 witness: applicability 5 with reach 2 gave Hardkor.
C9_Witness ==
    /\ Classified /\ card \in TipCards
    /\ RawScore(card, field_primenimost) = 10
    /\ RawScore(card, field_massovost) = 4
    /\ parameters.tip_kontenta = Hardkor

\* The influencer flag as the card means it: a truthy word, a true boolean,
\* the number 1, or a one-element option-id list whose option carries a
\* truthy label.
OptionLabel(opts, oid) ==
    IF \E i \in DOMAIN opts : opts[i].id = oid
    THEN opts[CHOOSE i \in DOMAIN opts : opts[i].id = oid].value
    ELSE PyNone
FlagIsTruthy(v) ==
    CASE v.t = "str"  -> Lower(v.s) \in InfluencerWords
      [] v.t = "bool" -> v.n = 1
      [] v.t = "int"  -> v.n = 1
      [] v.t = "list" -> /\ Len(v.items) = 1
                         /\ LET l == OptionLabel(InfluencerOptions, v.items[1].v)
                            IN l.t = "str" /\ Lower(l.s) \in InfluencerWords
      [] OTHER        -> FALSE

\* C10: calculate_uroven_spikera returns Hedlajner (Headliner) iff charisma >= 5
\* and the influencer value is truthy; otherwise Horoshij Spiker iff
\* charisma >= 4; otherwise Ekspert iff charisma >= 1; otherwise Ne opredelen,
\* whatever encoding the card uses for the influencer flag (string, boolean,
\* number, one-element option-id list resolving to a truthy label).
C10_UrovenSpikeraRule ==
    (Classified /\ card \in SpikerCards) =>
        LET h == RawScore(card, field_harizma)
            headliner == h >= 10 /\ FlagIsTruthy(Raw(card, field_influencer))
            u == parameters.uroven_spikera
        IN /\ (u = Hedlajner) <=> headliner
           /\ (u = HoroshijSpiker) <=> (~headliner /\ h >= 8)
           /\ (u = Ekspert) <=> (~headliner /\ h < 8 /\ h >= 2)
           /\ (u = NeOpredelen) <=> (~headliner /\ h < 2)

\* C11: for every reach score calculate_ohvat returns Ne opredelen
\* (Undetermined) for 0, Dlya vseh (For everyone) for 4 or 5, Kross
\* (Cross-audience) for 3, Nisha (Niche) for 1 or 2, and Ne opredelen for any
\* other value.
C11_OhvatRule ==
    (Classified /\ card \in TipCards) =>
        LET m == RawScore(card, field_massovost)
            o == parameters.ohvat
        IN /\ m = 0 => o = NeOpredelen
           /\ m \in {8, 10} => o = DlyaVseh
           /\ m = 6 => o = Kross
           /\ m \in {2, 4} => o = Nisha
           /\ m \notin {0, 2, 4, 6, 8, 10} => o = NeOpredelen

\* C11 witness: reach 3 gave Kross.
C11_Witness ==
    /\ Classified /\ card \in TipCards
    /\ RawScore(card, field_massovost) = 6
    /\ parameters.ohvat = Kross

(***************************************************************************)
(* KaitenClient._make_request_with_retry (index.py)                        *)
(*   One action per way an iteration of the for loop can end.  trace keeps *)
(*   the requests and the sleeps in the order they happen; delays are      *)
(*   floats in half units (1.0 second is 2).  The statements after the     *)
(*   loop are not reachable: the last iteration returns or raises.         *)
(***************************************************************************)
MAX_RETRIES_429 == 3
INITIAL_RETRY_DELAY == Score(1)

Request(st, h) == [op |-> "request", status |-> st, hdr |-> h, delay |-> 0]
Sleep(d)       == [op |-> "sleep", status |-> 0, hdr |-> PyNone, delay |-> d]
\* exc_response is the number of the request whose response an HTTPError
\* carries (0 when there is none).
NoOutcome      == [kind |-> "none", status |-> 0, exc_response |-> 0]
Returned(st)   == [kind |-> "response", status |-> st, exc_response |-> 0]
Raised(k, st)  == [kind |-> k, status |-> st, exc_response |-> 0]
RaisedHTTPError(st, n) == [kind |-> "HTTPError", status |-> st, exc_response |-> n]

\* The response of last_exception: the one of the attempt before.
PreviousResponse(a) == a

\* response.raise_for_status() in iteration a raises with the response of
\* that iteration, which is the (a + 1)-th request.
RaisingResponse(a) == a + 1

\* The Retry-After headers a 429 response carries: none, numbers, an empty
\* string, a date-like word and a negative number.
RetryAfterValues ==
    {PyNone, PyStr(<<"5">>), PyStr(<<"0", ".", "5">>), PyStr(<<"0">>),
     PyStr(<<>>), PyStr(<<"abc">>), PyStr(<<"-", "1">>)}
ErrorStatuses == {400, 404, 500, 503}
OkStatuses == {200, 204}
NetworkErrors == {"ConnectionError", "Timeout"}

FlatDelay(a) == INITIAL_RETRY_DELAY

\* delay = INITIAL_RETRY_DELAY * (2 ** attempt)
BackoffDelay(a) == INITIAL_RETRY_DELAY * (2 ^ a)

\* The delay handed to time.sleep: float(Retry-After) when the header is
\* non-empty and parses, the backoff delay otherwise.
SleepDelay(a, h) ==
    IF Truthy(h) /\ ParseFloat(h.s).ok THEN ParseFloat(h.s).n ELSE BackoffDelay(a)

InLoop == rpc = "run" /\ attempt \in 0..MAX_RETRIES_429

OneMoreAttempt(a) == a < MAX_RETRIES_429 + 1

\* if attempt < MAX_RETRIES_429: another iteration follows this one.
MoreAttempts(a) == a < MAX_RETRIES_429

\* 429 on an attempt before the last: sleep, then the next iteration.
\* time.sleep raises ValueError on a negative delay, which no except clause
\* of the loop catches.
Retry429(h) ==
    /\ InLoop /\ MoreAttempts(attempt)
    /\ LET delay == SleepDelay(attempt, h)
       IN IF delay < 0
          THEN /\ trace' = Append(trace, Request(429, h))
               /\ rpc' = "raised"
               /\ outcome' = Raised("ValueError", 0)
               /\ attempt' = attempt
          ELSE /\ trace' = trace \o <<Request(429, h), Sleep(delay)>>
               /\ attempt' = attempt + 1
               /\ UNCHANGED <<rpc, outcome>>
    /\ UNCHANGED <<classifyVars, extractVars, updateVars, batchVars, webhookVars, statusVars, clientVars, cacheVars>>

\* 429 on the last attempt: raise_for_status raises, the handler re-raises.
Exhausted429(h) ==
    /\ InLoop /\ ~MoreAttempts(attempt)
    /\ trace' = Append(trace, Request(429, h))
    /\ rpc' = "raised"
    /\ outcome' = RaisedHTTPError(429, RaisingResponse(attempt))
    /\ UNCHANGED attempt
    /\ UNCHANGED <<classifyVars, extractVars, updateVars, batchVars, webhookVars, statusVars, clientVars, cacheVars>>

GoOnAfterError(st) == "run"

\* Where the call stands once the except clause has seen an HTTPError whose
\* status is not 429: the bare raise ends it.
AfterHttpError(st) == "raised"

\* Any other 4xx/5xx status: raise_for_status raises, the handler re-raises.
HttpError(st) ==
    /\ InLoop
    /\ trace' = Append(trace, Request(st, PyNone))
    /\ rpc' = AfterHttpError(st)
    /\ outcome' = RaisedHTTPError(st, RaisingResponse(attempt))
    /\ UNCHANGED attempt
    /\ UNCHANGED <<classifyVars, extractVars, updateVars, batchVars, webhookVars, statusVars, clientVars, cacheVars>>

\* session.request raises a RequestException: re-raised without a retry.
NetworkError(e) ==
    /\ InLoop
    /\ trace' = Append(trace, Request(0, PyNone))
    /\ rpc' = "raised"
    /\ outcome' = Raised(e, 0)
    /\ UNCHANGED attempt
    /\ UNCHANGED <<classifyVars, extractVars, updateVars, batchVars, webhookVars, statusVars, clientVars, cacheVars>>

\* A status below 400: the response is returned.
Success(st) ==
    /\ InLoop
    /\ trace' = Append(trace, Request(st, PyNone))
    /\ rpc' = "returned"
    /\ outcome' = Returned(st)
    /\ UNCHANGED attempt
    /\ UNCHANGED <<classifyVars, extractVars, updateVars, batchVars, webhookVars, statusVars, clientVars, cacheVars>>

InitRetry ==
    /\ attempt = 0 /\ rpc = "run" /\ trace = <<>> /\ outcome = NoOutcome
    /\ IdleClassify /\ IdleExtract /\ IdleUpdate /\ IdleBatch /\ IdleWebhook /\ IdleStatus /\ IdleClient /\ IdleCache

NextRetry ==
    \/ \E h \in RetryAfterValues : Retry429(h)
    \/ \E h \in RetryAfterValues : Exhausted429(h)
    \/ \E st \in ErrorStatuses : HttpError(st)
    \/ \E e \in NetworkErrors : NetworkError(e)
    \/ \E st \in OkStatuses : Success(st)

SpecRetry == InitRetry /\ [][NextRetry]_vars

Requests(tr) == SelectSeq(tr, LAMBDA e : e.op = "request")
Sleeps(tr)   == SelectSeq(tr, LAMBDA e : e.op = "sleep")

\* The server's answers 429, 429, 200 without Retry-After, and the trace the
\* client must produce against them.
Script429_429_200 == <<Request(429, PyNone), Request(429, PyNone), Request(200, PyNone)>>
Expected429_429_200 ==
    <<Request(429, PyNone), Sleep(INITIAL_RETRY_DELAY),
      Request(429, PyNone), Sleep(2 * INITIAL_RETRY_DELAY),
      Request(200, PyNone)>>

\* C2: against the answers 429, 429, 200 without Retry-After,
\* _make_request_with_retry issues exactly 3 requests, sleeps exactly twice,
\* INITIAL_RETRY_DELAY and then 2 * INITIAL_RETRY_DELAY, each sleep between two
\* requests, and returns the 200 response: as long as the answers received so
\* far are a prefix of the script, the trace is the matching prefix of the
\* expected trace, the call goes on while answers remain and has returned the
\* 200 response once all three are consumed.
C2_Retry429Then200 ==
    LET reqs == Requests(trace)
        k == Len(reqs)
    IN (rpc # "idle" /\ k <= 3 /\ reqs = SubSeq(Script429_429_200, 1, k)) =>
        /\ trace = SubSeq(Expected429_429_200, 1, IF k = 3 THEN 5 ELSE 2 * k)
        /\ k < 3 => (rpc = "run" /\ outcome = NoOutcome)
        /\ k = 3 => (rpc = "returned" /\ outcome = Returned(200)
                     /\ Len(Sleeps(trace)) = 2)

\* C2 witness: the call returned after exactly the expected trace.
C2_Witness ==
    /\ rpc = "returned" /\ outcome = Returned(200)
    /\ trace = Expected429_429_200

\* Every answer received so far was a 429.
Only429 == \A i \in DOMAIN Requests(trace) : Requests(trace)[i].status = 429

\* C13 as stated: against a server that answers every request with 429,
\* _make_request_with_retry issues at most MAX_RETRIES_429 requests in total.
C13_AtMostMaxRequests ==
    (rpc # "idle" /\ Only429) => Len(Requests(trace)) <= MAX_RETRIES_429

\* C13: against a server that answers every request with 429,
\* _make_request_with_retry issues at most MAX_RETRIES_429 + 1 requests (the
\* first attempt and MAX_RETRIES_429 retries) and sleeps at most
\* MAX_RETRIES_429 times; with the last of these requests the call is over.
C13_AtMostMaxRetries ==
    (rpc # "idle" /\ Only429) =>
        /\ Len(Requests(trace)) <= MAX_RETRIES_429 + 1
        /\ Len(Sleeps(trace)) <= MAX_RETRIES_429
        /\ Len(Requests(trace)) = MAX_RETRIES_429 + 1 => rpc = "raised"

\* C14: if every attempt of _make_request_with_retry received 429 (all
\* MAX_RETRIES_429 + 1 of them), the call has ended by raising an HTTPError
\* whose response is the last 429 response received, and the last thing the
\* call did is that request: no sleep follows it.
AllAttempts429 == Only429 /\ Len(Requests(trace)) = MAX_RETRIES_429 + 1
C14_LastResponseRaised ==
    (rpc # "idle" /\ AllAttempts429) =>
        /\ rpc = "raised"
        /\ outcome = RaisedHTTPError(429, Len(Requests(trace)))
        /\ trace[Len(trace)].op = "request" /\ trace[Len(trace)].status = 429
        /\ Len(Sleeps(trace)) = MAX_RETRIES_429

\* C14 witness: the fourth 429, carrying a Retry-After header that the three
\* before it did not carry, ended the call with an HTTPError for it.
C14_Witness ==
    /\ rpc = "raised" /\ AllAttempts429
    /\ outcome = RaisedHTTPError(429, 4)
    /\ trace[Len(trace)] = Request(429, PyStr(<<"5">>))
    /\ \A i \in 1..(Len(trace) - 1) : trace[i].hdr = PyNone

\* C15: only a 429 response is followed by anything: a request that ended in
\* another HTTP error status or in a network-level exception is the last
\* entry of the trace and the call has raised that error (the HTTPError of
\* that response, or the network exception itself); every sleep directly
\* follows a 429 response.
C15_OnlyRetry429 ==
    /\ \A i \in DOMAIN trace :
          (trace[i].op = "request" /\ trace[i].status \notin {429} \cup OkStatuses) =>
              /\ i = Len(trace)
              /\ rpc = "raised"
              /\ trace[i].status \in ErrorStatuses =>
                    outcome = RaisedHTTPError(trace[i].status, Len(Requests(trace)))
              /\ trace[i].status = 0 =>
                    (outcome.kind \in NetworkErrors /\ outcome.exc_response = 0)
    /\ \A i \in DOMAIN trace :
          trace[i].op = "sleep" =>
              (i > 1 /\ trace[i - 1].op = "request" /\ trace[i - 1].status = 429)

\* C15 witness: a 429 was retried, the 500 that followed was raised at once.
C15_Witness ==
    /\ trace = <<Request(429, PyNone), Sleep(INITIAL_RETRY_DELAY), Request(500, PyNone)>>
    /\ rpc = "raised" /\ outcome = RaisedHTTPError(500, 2)

\* The number of requests among the first i entries of a trace.
RequestsUpTo(tr, i) == Len(Requests(SubSeq(tr, 1, i)))

\* The delay C21 names for a 429 answered to the k-th request with header h:
\* the number the header parses to, else INITIAL_RETRY_DELAY * 2^(k - 1).
NamedDelay(k, h) ==
    IF h.t = "str" /\ ParseFloat(h.s).ok THEN ParseFloat(h.s).n ELSE BackoffDelay(k - 1)

\* C21 as stated: every 429 answer that is retried (it came before the last
\* attempt) is followed by a sleep of the number its Retry-After header
\* parses to, and of INITIAL_RETRY_DELAY * 2^attempt when the header is
\* missing or does not parse.
C21_RetryAfterOverrides ==
    \A i \in DOMAIN trace :
        (/\ trace[i].op = "request" /\ trace[i].status = 429
         /\ RequestsUpTo(trace, i) <= MAX_RETRIES_429) =>
            /\ i < Len(trace)
            /\ trace[i + 1] = Sleep(NamedDelay(RequestsUpTo(trace, i), trace[i].hdr))

\* C13 witness: four 429 answers were received and the call raised.
C13_Witness ==
    /\ rpc = "raised" /\ Only429
    /\ Len(Requests(trace)) = MAX_RETRIES_429 + 1
    /\ Len(Sleeps(trace)) = MAX_RETRIES_429

(***************************************************************************)
(* ConferenceProposalEvaluator.update_card_parameters (index.py)           *)
(***************************************************************************)
field_rating_kachestva == PyStr(<<"id_", "8">>)
field_tip_kontenta     == PyStr(<<"id_", "9">>)
field_uroven_spikera   == PyStr(<<"id_", "10">>)
field_ohvat            == PyStr(<<"id_", "11">>)

\* a or b
PyOr(a, b) == IF Truthy(a) THEN a ELSE b

\* field_id.replace('id_', '') if field_id.startswith('id_') else field_id
FieldIdClean(fid) ==
    IF fid.t = "str" /\ StartsWithId(fid.s) THEN PyStr(RemoveIdPrefix(fid.s)) ELSE fid

\* try: int(x) except (ValueError, TypeError): x
IntOrSelf(x) ==
    CASE x.t = "str" -> IF ParseInt(x.s).ok THEN PyInt(ParseInt(x.s).n) ELSE x
      [] x.t \in {"int", "bool"} -> PyInt(x.n)
      [] x.t = "float" -> PyInt(x.n \div 2)
      [] OTHER -> x

\* Index of the first element of s that passes Test, 0 when there is none
\* (a for loop that returns or breaks at the first hit).
FirstIdx(s, Test(_)) ==
    CHOOSE i \in 0..Len(s) :
        /\ i > 0 => Test(s[i])
        /\ \A j \in 1..(IF i = 0 THEN Len(s) ELSE i - 1) : ~Test(s[j])

\* str(v) == target for a descriptor id that is not None.
IdStrIs(v, target) == v # PyNone /\ PyStr(StrOf(v)) = target

\* The comparison of _find_property_info between a descriptor and a field id
\* (the last four comparisons of the source repeat the fifth and sixth).
FpiMatchesClean(prop, fid, clean) ==
    \/ prop.id = fid
    \/ prop.property_id = fid
    \/ IdStrIs(prop.id, fid)
    \/ IdStrIs(prop.property_id, fid)
    \/ IdStrIs(prop.id, clean)
    \/ IdStrIs(prop.property_id, clean)
    \/ prop.name = fid
FpiMatches(prop, fid) == FpiMatchesClean(prop, fid, FieldIdClean(fid))

NoInfo == [found |-> FALSE, id |-> PyNone, property_id |-> PyNone, type |-> PyNone]

\* The descriptor at index i of custom_properties, else the stand-in built
\* from the properties mapping, else NoInfo (None).
FpiResult(c, fid, clean, i) ==
    IF i > 0
    THEN [found |-> TRUE, id |-> c.custom_properties[i].id,
          property_id |-> c.custom_properties[i].property_id,
          type |-> c.custom_properties[i].type]
    ELSE IF c.has_props /\ c.props # <<>>
            /\ (HasKey(c.props, fid.s) \/ HasKey(c.props, clean.s))
    THEN [found |-> TRUE, id |-> fid, property_id |-> IntOrSelf(clean),
          type |-> PyStr(<<"unknown">>)]
    ELSE NoInfo

_find_property_info(c, fid) ==
    FpiResult(c, fid, FieldIdClean(fid),
              FirstIdx(c.custom_properties, LAMBDA prop : FpiMatches(prop, fid)))

\* What update_card_parameters settles for a field before the option loop:
\* the property_id, and whether select values are looked up (cache or API).
FieldPlanFrom(info, fromCard, fromField, clean) ==
    [pid   |-> IF info.found /\ Truthy(fromCard) THEN fromCard ELSE fromField,
     looks |-> IF info.found
               THEN Truthy(fromCard) \/ Truthy(fromField)
               ELSE fromField.t = "int"]
FieldPlanInfo(info, clean) ==
    FieldPlanFrom(info, PyOr(info.property_id, info.id), IntOrSelf(clean), clean)
FieldPlan(c, fid) == FieldPlanInfo(_find_property_info(c, fid), FieldIdClean(fid))

PropertyIdOf(c, fid) == FieldPlan(c, fid).pid

\* f"id_{property_id}"
PropertyKey(pid) == <<"id_">> \o StrOf(pid)

\* A select option as the API serves it.
Option(oid, label) == [id |-> oid, value |-> label]

OptionMatchesExact(option, value) ==
    /\ option.value = value
    /\ Truthy(option.id)

\* The option is accepted for the label: equal after str().strip().lower(),
\* or equal as is; and its id is truthy.
OptionMatches(option, value) ==
    /\ \/ /\ Truthy(option.value)
          /\ Lower(Strip(StrOf(option.value))) = Lower(Strip(StrOf(value)))
       \/ option.value = value
    /\ Truthy(option.id)

\* int(option_id) if isinstance(option_id, (int, str)) and
\* str(option_id).isdigit() else option_id
FoundOptionIdStr(oid, s) ==
    IF oid.t \in {"int", "bool", "str"} /\ IsDigit(s)
    THEN PyInt(NumeralValue(s[1]))
    ELSE oid
FoundOptionId(oid) == FoundOptionIdStr(oid, StrOf(oid))

\* A select-values result: None (ok = FALSE) or a list of options.
NoSelectValues == [ok |-> FALSE, opts |-> <<>>]
SelectValues(opts) == [ok |-> TRUE, opts |-> opts]

\* value after the option loop: the id of the first accepted option, or the
\* label unchanged.
ResolveValueAt(sv, value, i) ==
    IF sv.ok /\ i > 0 THEN FoundOptionId(sv.opts[i].id) ELSE value
ResolveValue(sv, value) ==
    ResolveValueAt(sv, value,
                   FirstIdx(sv.opts, LAMBDA option : OptionMatches(option, value)))

AnyValue(value) == TRUE

\* isinstance(value, (int, float)) and [int(value)]
IsIntOrFloat(value) == value.t \in {"int", "float", "bool"}
FinalValue(value) == PyList(<<IntOrSelf(value)>>)

\* properties[key] = val
SetItem(its, key, val) ==
    IF HasKey(its, key)
    THEN [i \in DOMAIN its |-> IF its[i].k = key THEN Item(key, val) ELSE its[i]]
    ELSE Append(its, Item(key, val))

\* fields_to_update
FieldsToUpdate(params) ==
    <<[fid |-> field_rating_kachestva, value |-> PyStr(params.rating_kachestva)],
      [fid |-> field_tip_kontenta,     value |-> PyStr(params.tip_kontenta)],
      [fid |-> field_uroven_spikera,   value |-> PyStr(params.uroven_spikera)],
      [fid |-> field_ohvat,            value |-> PyStr(params.ohvat)]>>

\* Client calls as recorded in http: the operation, its arguments, and
\* whether it gave a result (a card, a list of select values, True).
GetCardReq(ok) == [op |-> "get_card", pid |-> PyNone, payload |-> <<>>, ok |-> ok]
GetSelectValuesReq(pid, ok) ==
    [op |-> "get_select_values", pid |-> pid, payload |-> <<>>, ok |-> ok]
UpdateCardReq(props, ok) ==
    [op |-> "update_card", pid |-> PyNone, payload |-> props, ok |-> ok]

\* The select values the API holds for a property.
Served(pid) == IF HasKey(options, pid) THEN Lookup(options, pid) ELSE <<>>

\* card = self.client.get_card(card_id) succeeded: the parameters are
\* calculated and the field loop starts.
UcpGetCard(c) ==
    /\ upc = "start"
    /\ ucard' = c
    /\ parameters' = calculate_all_parameters(c)
    /\ http' = Append(http, GetCardReq(TRUE))
    /\ fidx' = 1
    /\ upc' = "fields"
    /\ UNCHANGED <<card, options, properties, select_values_cache, success, mismatches>>
    /\ UNCHANGED <<extractVars, retryVars, batchVars, webhookVars, statusVars, clientVars, cacheVars>>

\* get_card returned None: return False.
UcpGetCardFailed ==
    /\ upc = "start"
    /\ http' = Append(http, GetCardReq(FALSE))
    /\ success' = FALSE
    /\ upc' = "done"
    /\ UNCHANGED <<card, parameters, ucard, options, fidx, properties, select_values_cache,
                   mismatches>>
    /\ UNCHANGED <<extractVars, retryVars, batchVars, webhookVars, statusVars, clientVars, cacheVars>>

\* The end of one iteration: the payload entry is written when the value
\* became a number, the field is skipped otherwise.
FieldWrite(pid, value) ==
    properties' =
        IF IsIntOrFloat(value)
        THEN SetItem(properties, PropertyKey(pid), FinalValue(value))
        ELSE properties

\* The lookup of one iteration: the local cache first, the API on a miss; a
\* result that is not None is cached.
FieldLookup(pid, label, looks, hit, fetched) ==
    /\ (~looks \/ hit) => fetched = NoSelectValues
    /\ fetched \in {NoSelectValues, SelectValues(Served(pid))}
    /\ select_values_cache' =
          IF looks /\ ~hit /\ fetched.ok
          THEN SetItem(select_values_cache, pid, fetched)
          ELSE select_values_cache
    /\ http' = IF looks /\ ~hit THEN Append(http, GetSelectValuesReq(pid, fetched.ok))
                ELSE http
    /\ FieldWrite(pid, ResolveValue(IF ~looks THEN NoSelectValues
                                    ELSE IF hit THEN Get(select_values_cache, pid)
                                    ELSE fetched, label))

FieldStep(f, plan, fetched) ==
    FieldLookup(plan.pid, f.value, plan.looks,
                HasKey(select_values_cache, plan.pid), fetched)

\* One iteration of the loop over fields_to_update; fetched is the answer of
\* client.get_select_values when the local cache misses.
UcpField(fetched) ==
    /\ upc = "fields"
    /\ FieldStep(FieldsToUpdate(parameters)[fidx],
                 FieldPlan(ucard, FieldsToUpdate(parameters)[fidx].fid), fetched)
    /\ fidx' = fidx + 1
    /\ upc' = IF fidx = 4 THEN "submit" ELSE "fields"
    /\ UNCHANGED <<card, parameters, ucard, options, success, mismatches>>
    /\ UNCHANGED <<extractVars, retryVars, batchVars, webhookVars, statusVars, clientVars, cacheVars>>

AlwaysSubmit(props) == TRUE

\* "if not properties" is false: at least one field was written to the
\* payload.
HasFields(props) == props # <<>>

\* if not properties: return False
UcpNoFields ==
    /\ upc = "submit" /\ ~HasFields(properties)
    /\ success' = FALSE
    /\ upc' = "done"
    /\ UNCHANGED <<card, parameters, ucard, options, fidx, properties,
                   select_values_cache, http, mismatches>>
    /\ UNCHANGED <<extractVars, retryVars, batchVars, webhookVars, statusVars, clientVars, cacheVars>>

\* success = self.client.update_card(card_id, update_data)
UcpPatch(ok) ==
    /\ upc = "submit" /\ HasFields(properties)
    /\ http' = Append(http, UpdateCardReq(properties, ok))
    /\ success' = ok
    /\ upc' = IF ok THEN "verify" ELSE "done"
    /\ UNCHANGED <<card, parameters, ucard, options, fidx, properties, select_values_cache,
                   mismatches>>
    /\ UNCHANGED <<extractVars, retryVars, batchVars, webhookVars, statusVars, clientVars, cacheVars>>

\* str(actual_value) != str(expected_value) for one output field of the
\* re-read card.
Mismatch(updated, f) == StrOf(extract_field_value(updated, f.fid)) # f.value.s
MismatchCount(updated, fields) ==
    Cardinality({i \in DOMAIN fields : Mismatch(updated, fields[i])})

StopOnMismatch(s, m) == s /\ m = 0

\* The value of success after the verification block: the block only logs.
AfterVerification(s, m) == s

\* The verification re-fetch after a successful PATCH: updated is the card
\* read again (EmptyCard when get_card gave nothing); every output field whose
\* text differs from the expected label is logged as a warning.
UcpVerify(updated) ==
    /\ upc = "verify"
    /\ http' = Append(http, GetCardReq(updated # EmptyCard))
    /\ mismatches' = IF updated = EmptyCard THEN 0
                     ELSE MismatchCount(updated, FieldsToUpdate(parameters))
    /\ success' = AfterVerification(success, mismatches')
    /\ upc' = "done"
    /\ UNCHANGED <<card, parameters, ucard, options, fidx, properties,
                   select_values_cache>>
    /\ UNCHANGED <<extractVars, retryVars, batchVars, webhookVars, statusVars, clientVars, cacheVars>>

(***************************************************************************)
(* Specification SpecUpdate: one call of update_card_parameters against an *)
(* API that holds one of the cards below and the select values of the four *)
(* output properties.                                                      *)
(***************************************************************************)
CriteriaA ==
    <<Item(field_aktualnost.s, PyInt(5)), Item(field_novizna.s, PyInt(5)),
      Item(field_opyt_spikera.s, PyInt(4)), Item(field_primenimost.s, PyInt(5)),
      Item(field_harizma.s, PyInt(5)), Item(field_influencer.s, PyStr(<<"da">>)),
      Item(field_massovost.s, PyInt(2))>>
CriteriaB ==
    <<Item(field_aktualnost.s, PyInt(3)), Item(field_novizna.s, PyInt(3)),
      Item(field_opyt_spikera.s, PyInt(3)), Item(field_primenimost.s, PyInt(3)),
      Item(field_harizma.s, PyInt(4)), Item(field_influencer.s, PyStr(<<"net">>)),
      Item(field_massovost.s, PyInt(4))>>

OutputFields == <<field_rating_kachestva, field_tip_kontenta,
                  field_uroven_spikera, field_ohvat>>
OutputNumber(i) == NumeralValue(RemoveIdPrefix(OutputFields[i].s)[1])

\* How a card exposes the four output fields.
Layouts == {"by_id", "by_property_id", "string_type", "in_properties", "absent"}

OutputDescriptors(layout) ==
    [i \in 1..4 |->
        CASE layout = "by_id" ->
                Descriptor(PyInt(OutputNumber(i)), PyNone, PyStr(<<"out">>),
                           PyStr(<<"select">>), PyNone)
          [] layout = "by_property_id" ->
                Descriptor(PyInt(999), PyInt(OutputNumber(i)), PyStr(<<"out">>),
                           PyStr(<<"select">>), PyNone)
          [] OTHER ->
                Descriptor(PyStr(<<ToString(OutputNumber(i))>>), PyInt(OutputNumber(i)),
                           PyStr(<<"out">>), PyStr(<<"string">>), PyNone)]

UpdateCard(criteria, layout) ==
    CASE layout \in {"by_id", "by_property_id", "string_type"} ->
            Card(TRUE, OutputDescriptors(layout), TRUE, criteria, <<>>)
      [] layout = "in_properties" ->
            Card(FALSE, <<>>, TRUE,
                 criteria \o [i \in 1..4 |-> Item(OutputFields[i].s, PyNone)], <<>>)
      [] OTHER -> Card(FALSE, <<>>, TRUE, criteria, <<>>)

UpdateCards == {UpdateCard(cr, l) : cr \in {CriteriaA, CriteriaB}, l \in Layouts}

\* Options of the rating property: up to two options, with ids that are
\* integers, digit strings, zero or a non-numeric string.
RatingOptionPool ==
    {Option(PyInt(7), PyStr(Zoloto))}
    \cup {Option(oid, PyStr(l)) :
            oid \in {PyInt(7), PyInt(5), PyStr(<<"7">>), PyInt(0), PyStr(<<"x">>)},
            l \in {<<" ", "ZOLOTO", " ">>, <<"Platina">>}}
RatingOptionLists ==
    {<<>>} \cup {<<a>> : a \in RatingOptionPool}
           \cup {<<a, b>> : a \in RatingOptionPool, b \in RatingOptionPool}

ServedOptions ==
    {<<Item(PyInt(8), r),
       Item(PyInt(9), <<Option(PyInt(3), PyStr(Hardkor)),
                        Option(PyStr(<<"4">>), PyStr(PrakticheskijKejs))>>),
       Item(PyInt(10), <<>>),
       Item(PyInt(11), <<Option(PyInt(6), PyStr(<<"nisha">>)),
                         Option(PyInt(0), PyStr(DlyaVseh))>>)>> :
        r \in RatingOptionLists}

\* The card as the API serves it once the four output fields show the
\* labels that were written.
EchoCard(params) ==
    Card(FALSE, <<>>, TRUE,
         [i \in 1..4 |-> Item(FieldsToUpdate(params)[i].fid.s, FieldsToUpdate(params)[i].value)],
         <<>>)

InitUpdate ==
    /\ upc = "start" /\ ucard = EmptyCard /\ options \in ServedOptions
    /\ fidx = 0 /\ properties = <<>> /\ select_values_cache = <<>>
    /\ http = <<>> /\ success = FALSE /\ mismatches = 0
    /\ IdleClassify /\ IdleExtract /\ IdleRetry /\ IdleBatch /\ IdleWebhook /\ IdleStatus /\ IdleClient /\ IdleCache

NextUpdate ==
    \/ \E c \in UpdateCards : UcpGetCard(c)
    \/ UcpGetCardFailed
    \/ \E sv \in {NoSelectValues} \cup {SelectValues(options[i].v) : i \in DOMAIN options} :
            UcpField(sv)
    \/ UcpNoFields
    \/ \E ok \in BOOLEAN : UcpPatch(ok)
    \/ \E updated \in {EmptyCard, ucard, EchoCard(parameters)} : UcpVerify(updated)

SpecUpdate == InitUpdate /\ [][NextUpdate]_vars

\* The update payload that was submitted, if any.
Submitted == \E i \in DOMAIN http : http[i].op = "update_card"
Payload == http[CHOOSE i \in DOMAIN http : http[i].op = "update_card"].payload
InPayload(key) == Submitted /\ HasKey(Payload, key)

\* The select values obtained for a property during the call.
Obtained(pid) ==
    IF HasKey(select_values_cache, pid) THEN Lookup(select_values_cache, pid).opts ELSE <<>>

\* The label of an option equals the outcome label after trimming whitespace
\* and ignoring case.
LabelEquals(option, label) ==
    option.value.t = "str" /\ Lower(Strip(option.value.s)) = Lower(Strip(label.s))

\* The call is over and had fetched the card.
UpdateOver == upc = "done" /\ ucard # EmptyCard

IntegerLike(oid) == oid.t = "int" \/ (oid.t = "str" /\ IsDigit(oid.s))
AsInteger(oid) == IF oid.t = "int" THEN oid ELSE PyInt(NumeralValue(oid.s[1]))

Patches == {i \in DOMAIN http : http[i].op = "update_card"}
FirstPatch == CHOOSE i \in Patches : \A j \in Patches : i <= j
AfterPatch == {i \in DOMAIN http : i > FirstPatch}

\* C17: a call never issues more than one PATCH; once it is over, it has
\* issued none and returned False when the card fetch failed or no field was
\* written to the payload, and otherwise exactly one, whose payload holds
\* every field that was written.
C17_OnePatch ==
    /\ Cardinality(Patches) <= 1
    /\ upc = "done" =>
          IF ucard = EmptyCard \/ properties = <<>>
          THEN Patches = {} /\ success = FALSE
          ELSE Cardinality(Patches) = 1 /\ Payload = properties

\* C17 witness: three output fields resolved and went out in one PATCH.
C17_Witness ==
    /\ upc = "done" /\ Cardinality(Patches) = 1
    /\ Len(properties) = 3 /\ Payload = properties

\* C18: once the PATCH was submitted, the value returned is the result of the
\* PATCH; the only request after the PATCH is the verification re-fetch, and
\* it is issued exactly when the PATCH succeeded; neither its failure nor the
\* mismatches it finds change the returned value.
C18_ResultIsPatchResult ==
    (upc = "done" /\ Submitted) =>
        /\ success = http[FirstPatch].ok
        /\ \A i \in AfterPatch : http[i].op = "get_card"
        /\ Cardinality(AfterPatch) = IF http[FirstPatch].ok THEN 1 ELSE 0

\* C18 witness: the PATCH succeeded, the re-read card disagrees on all four
\* output fields, and the call returned True.
C18_Witness ==
    /\ upc = "done" /\ Submitted /\ http[FirstPatch].ok
    /\ http[Len(http)] = GetCardReq(TRUE) /\ mismatches = 4
    /\ success = TRUE

\* C18, second witness state: the re-fetch itself failed after a successful
\* PATCH and the call still returned True.
C18_RefetchFailed ==
    /\ upc = "done" /\ Submitted /\ http[FirstPatch].ok
    /\ http[Len(http)] = GetCardReq(FALSE)
    /\ success = TRUE

\* The descriptor of the field in the fetched card declares a type that is
\* not select-like and not unknown.
DeclaresPlain(info) ==
    /\ info.found
    /\ info.type \notin {PyStr(<<"select">>), PyStr(<<"multi_select">>),
                          PyStr(<<"unknown">>), PyNone}

\* C26 as stated: for every output field whose descriptor declares such a
\* type, the submitted payload holds the outcome label itself under the
\* field's write key.
C26_PlainValueWritten ==
    UpdateOver =>
        \A f \in 1..4 :
            DeclaresPlain(_find_property_info(ucard, OutputFields[f])) =>
                /\ InPayload(PropertyKey(PropertyIdOf(ucard, OutputFields[f])))
                /\ Lookup(Payload, PropertyKey(PropertyIdOf(ucard, OutputFields[f])))
                      = FieldsToUpdate(parameters)[f].value

\* The payload entry e belongs to output field f: its key is the write key
\* of f and its value is the one-element list of the integer id of an
\* option obtained for the property of f.
OptionIdEntry(e, pid) ==
    /\ e.k = PropertyKey(pid) /\ Head(e.k) = "id_"
    /\ e.v.t = "list" /\ Len(e.v.items) = 1 /\ e.v.items[1].v.t = "int"
    /\ \E j \in DOMAIN Obtained(pid) :
          /\ IntegerLike(Obtained(pid)[j].id)
          /\ AsInteger(Obtained(pid)[j].id) = e.v.items[1].v

\* C29: every entry of a submitted payload has the key "id_<property_id>"
\* of an output field and holds a one-element list with the integer id of
\* one of that property's options; no label and no other kind of id is
\* submitted.
C29_OnlyOptionIdLists ==
    Submitted =>
        \A i \in DOMAIN Payload :
            \E f \in 1..4 : OptionIdEntry(Payload[i], PropertyIdOf(ucard, OutputFields[f]))

\* C29 witness: an option id served as the digit string "4" went out as the
\* integer 4.
C29_Witness ==
    /\ UpdateOver /\ Submitted
    /\ Len(Obtained(PyInt(9))) = 2 /\ Obtained(PyInt(9))[2].id = PyStr(<<"4">>)
    /\ InPayload(<<"id_", "9">>)
    /\ Lookup(Payload, <<"id_", "9">>) = PyList(<<PyInt(4)>>)

\* C19 as stated, for the cache that update_card_parameters keeps during one
\* call: no entry holds a failed result (None) or an empty list, so a
\* property whose fetch gave nothing is fetched again at its next lookup.
C19_NoEmptyCached ==
    \A i \in DOMAIN select_values_cache :
        select_values_cache[i].v.ok /\ select_values_cache[i].v.opts # <<>>

(***************************************************************************)
(* CardStatusAutomation: field resolver (kaiten_automation.py)             *)
(*   Labels of VALUES_SCORE are token sequences; "I_cyr" and "T_cyr" are   *)
(*   the Cyrillic look-alikes U+0406 and U+0422 of the Latin I and T.      *)
(***************************************************************************)
ScoreLabel(n, words) == <<ToString(n), " ", "-", " ">> \o words

\* Entries of VALUES_SCORE (one scale per criterion, the spelling variants of
\* the reach scale, and the influencer flags).
VALUES_SCORE ==
    {[label |-> ScoreLabel(1, <<"Nizkaya">>),       score |-> Score(1)],
     [label |-> ScoreLabel(2, <<"Slabaya">>),       score |-> Score(2)],
     [label |-> ScoreLabel(3, <<"Srednyaya">>),     score |-> Score(3)],
     [label |-> ScoreLabel(4, <<"Vysokaya">>),      score |-> Score(4)],
     [label |-> ScoreLabel(5, <<"Maksimalnaya">>),  score |-> Score(5)],
     [label |-> ScoreLabel(5, <<"Dlya", " ", "vsej", " ", "I", "T", " ", "kuhni">>),
      score |-> Score(5)],
     [label |-> ScoreLabel(5, <<"Dlya", " ", "vsej", " ", "I_cyr", "T_cyr", " ", "kuhni">>),
      score |-> Score(5)],
     [label |-> ScoreLabel(5, <<"Dlya", " ", "vsej", " ", "I", "T_cyr", " ", "kuhni">>),
      score |-> Score(5)],
     [label |-> ScoreLabel(5, <<"Dlya", " ", "vsej", " ", "I_cyr", "T", " ", "kuhni">>),
      score |-> Score(5)],
     [label |-> <<"Da">>,  score |-> Score(1)],
     [label |-> <<"Net">>, score |-> 0],
     [label |-> <<"Yes">>, score |-> Score(1)],
     [label |-> <<"No">>,  score |-> 0]}

InTable(s) == \E e \in VALUES_SCORE : e.label = s
TableScore(s) == (CHOOSE e \in VALUES_SCORE : e.label = s).score

\* value.replace('І', 'I').replace('Т', 'T')
ReplaceLookalikes(s) ==
    [i \in DOMAIN s |-> IF s[i] = "I_cyr" THEN "I" ELSE IF s[i] = "T_cyr" THEN "T" ELSE s[i]]

\* A float result, or an exception that escapes.
Num(h) == [raised |-> FALSE, n |-> h]
Raises == [raised |-> TRUE, n |-> 0]

\* _value_to_float: the table, the table after the look-alike replacement,
\* float(value), 0.0.  A value that is not a str has no replace method.
ValueToFloatStr(s, normalized) ==
    IF InTable(s) THEN Num(TableScore(s))
    ELSE IF InTable(normalized) THEN Num(TableScore(normalized))
    ELSE IF ParseFloat(s).ok THEN Num(ParseFloat(s).n)
    ELSE Num(0)
_value_to_float(value) ==
    IF value.t = "str" THEN ValueToFloatStr(value.s, ReplaceLookalikes(value.s))
    ELSE Raises

\* int(item_id) == int(selected_id), or item_id == selected_id when either
\* conversion fails.
SameOptionId(item_id, selected_id, a, b) ==
    IF a.t = "int" /\ b.t = "int" THEN a.n = b.n ELSE item_id = selected_id
ItemSelected(item, selected_id) ==
    /\ Truthy(item.id)
    /\ SameOptionId(item.id, selected_id, IntOrSelf(item.id), IntOrSelf(selected_id))

\* _resolve_select_value: the label of the first option whose id is the first
\* element of raw_list; None when the list is empty, the field id is not
\* numeric, the select values are missing or no option has that id.
\* item.get('value') or item.get('name') or ...: an option carries its label
\* under 'value' only, so a falsy label gives None.
ResolveSelectAt(values, i) == IF i > 0 THEN PyOr(values[i].value, PyNone) ELSE PyNone
ResolveSelectIn(values, selected_id) ==
    ResolveSelectAt(values, FirstIdx(values, LAMBDA item : ItemSelected(item, selected_id)))
_resolve_select_value(fid, raw_list, sv) ==
    IF raw_list.items = <<>> THEN PyNone
    ELSE IF ~ParseInt(RemoveIdPrefix(StrOf(fid))).ok THEN PyNone
    ELSE IF ~sv.ok \/ sv.opts = <<>> THEN PyNone
    ELSE ResolveSelectIn(sv.opts, raw_list.items[1].v)

_normalize_field_value_for_score(value, fid, sv) ==
    CASE value.t = "none" -> PyNone
      [] value.t = "str" -> value
      [] value.t \in {"int", "float", "bool"} -> PyStr(StrOf(value))
      [] value.t = "list" /\ value.items # <<>> -> _resolve_select_value(fid, value, sv)
      [] OTHER -> PyNone

\* normalized is not None: _value_to_float(normalized); else 0.0
ScoreOfNormalized(normalized) ==
    IF normalized = PyNone THEN Num(0) ELSE _value_to_float(normalized)
ScoreOfRaw(value, fid, sv) ==
    ScoreOfNormalized(_normalize_field_value_for_score(value, fid, sv))

\* The comparison of CardStatusAutomation.extract_numeric_value.
CsaMatches(prop, fid) ==
    StrOf(prop.id) = StrOf(fid) \/ StrOf(prop.property_id) = StrOf(fid)

\* key = field_id if field_id in card else f"id_{field_id}" if ... else None
TopKey(c, raw, prefixed) ==
    IF HasKey(c.top, raw) THEN raw ELSE IF HasKey(c.top, prefixed) THEN prefixed ELSE <<>>

CsaFromTop(c, fid, sv, key) ==
    IF key # <<>> /\ Lookup(c.top, key) # PyNone
       /\ _normalize_field_value_for_score(Lookup(c.top, key), fid, sv) # PyNone
    THEN ScoreOfRaw(Lookup(c.top, key), fid, sv)
    ELSE Num(0)

CsaFromShapes(c, fid, sv, i) ==
    IF c.has_cp /\ i > 0 THEN ScoreOfRaw(c.custom_properties[i].value, fid, sv)
    ELSE IF c.has_props /\ Get(c.props, fid.s) # PyNone
    THEN ScoreOfRaw(Get(c.props, fid.s), fid, sv)
    ELSE CsaFromTop(c, fid, sv, TopKey(c, fid.s, <<"id_">> \o fid.s))

\* CardStatusAutomation.extract_numeric_value for a field id that is a str
\* (numeric_field_ids are read from the environment); sv is the answer of
\* client.get_select_values for the field's property.
CSA_extract_numeric_value(c, fid, sv) ==
    CsaFromShapes(c, fid, sv,
                  FirstIdx(c.custom_properties, LAMBDA prop : CsaMatches(prop, fid)))

\* The select values of a criterion: option k carries the k-th label of the
\* five-step scale of VALUES_SCORE.
ScaleWords == <<"Nizkaya", "Slabaya", "Srednyaya", "Vysokaya", "Maksimalnaya">>
CriterionOptions ==
    [k \in 1..5 |-> Option(PyInt(k), PyStr(ScoreLabel(k, <<ScaleWords[k]>>)))]

\* The table score of the label of the option a criterion holds.
LabelScore(c, fid) ==
    CSA_extract_numeric_value(c, fid, SelectValues(CriterionOptions)).n

\* The card with every criterion replaced by that score.
ScoredCard(c) ==
    PropsCard([i \in 1..6 |-> Item(CriterionFields[i].s,
                                    PyFloat(LabelScore(c, CriterionFields[i])))])

\* C22 as stated: for a card whose criteria are one-element option-id lists
\* with labels of the score table, the value each classification function
\* reads is the table score of the label, so the four outcomes are those of
\* the card that holds the scores themselves.
C22_OptionIdsResolved ==
    (Classified /\ card \in SelectCards) =>
        /\ \A i \in 1..6 :
              extract_numeric_value(card, CriterionFields[i])
                  = LabelScore(card, CriterionFields[i])
        /\ parameters = calculate_all_parameters(ScoredCard(card))

(***************************************************************************)
(* Specification SpecExtract: one raw value exposed for one field          *)
(* identifier by three cards, each through a single shape, and read by the *)
(* resolvers of both modules.                                              *)
(***************************************************************************)
ExtractFieldIds == {PyStr(<<"id_", "3">>), PyStr(<<"3">>)}

ExtractValues ==
    {PyNone, PyInt(0), PyInt(4), PyFloat(9), PyBool(TRUE),
     PyStr(<<"4">>), PyStr(<<"4", ".", "5">>), PyStr(<<"abc">>), PyStr(<<>>),
     PyStr(ScoreLabel(4, <<"Vysokaya">>)),
     PyStr(<<" ">> \o ScoreLabel(4, <<"Vysokaya">>) \o <<" ">>),
     PyStr(ScoreLabel(4, <<"VYSOKAYA">>)),
     PyStr(ScoreLabel(5, <<"Dlya", " ", "vsej", " ", "I_cyr", "T", " ", "kuhni">>)),
     PyList(<<PyInt(7)>>), PyList(<<>>),
     PyDict(<<>>), PyDict(<<Item(<<"a">>, PyInt(1))>>)}

\* How a descriptor carries the identifier: as the raw identifier in id or
\* property_id, as the prefix-stripped number or string in property_id, or
\* as its name.
DescriptorForms == {"raw_id", "raw_property_id", "int_id", "int_property_id",
                    "str_property_id", "name"}

ExposingDescriptor(form, fid, v) ==
    CASE form = "raw_id" ->
            Descriptor(fid, PyNone, PyStr(<<"crit">>), PyStr(<<"select">>), v)
      [] form = "raw_property_id" ->
            Descriptor(PyInt(999), fid, PyStr(<<"crit">>), PyStr(<<"select">>), v)
      [] form = "int_id" ->
            Descriptor(IntOrSelf(FieldIdClean(fid)), PyNone, PyStr(<<"crit">>),
                       PyStr(<<"select">>), v)
      [] form = "int_property_id" ->
            Descriptor(PyInt(999), IntOrSelf(FieldIdClean(fid)), PyStr(<<"crit">>),
                       PyStr(<<"select">>), v)
      [] form = "str_property_id" ->
            Descriptor(PyInt(999), FieldIdClean(fid), PyStr(<<"crit">>),
                       PyStr(<<"select">>), v)
      [] OTHER ->
            Descriptor(PyInt(999), PyInt(1000), fid, PyStr(<<"select">>), v)

\* The top-level key: the raw identifier or its prefixed form.
TopForms == {"raw", "prefixed"}
TopKeyFor(form, fid) == IF form = "raw" THEN fid.s ELSE <<"id_">> \o fid.s

ThreeShapes(fid, v, dform, tform) ==
    <<Card(TRUE, <<ExposingDescriptor(dform, fid, v)>>, FALSE, <<>>, <<>>),
      Card(FALSE, <<>>, TRUE, <<Item(fid.s, v)>>, <<>>),
      Card(FALSE, <<>>, FALSE, <<>>, <<Item(TopKeyFor(tform, fid), v)>>)>>

\* A card that holds the field in several places at once, each place with
\* a value of its own: 1 and 2 in two descriptors, 3 in the properties
\* mapping, 4 under the top-level key, 5 under the prefixed top-level key.
MixedPlaces ==
    {{1, 2, 3, 4, 5}, {2, 3, 4, 5}, {3, 4, 5}, {4, 5}, {5}, {}, {3, 5}, {1, 4}}
MixedDescriptors(fid, places) ==
    (IF 1 \in places
     THEN <<Descriptor(fid, PyNone, PyStr(<<"crit">>), PyStr(<<"select">>), PyInt(1))>>
     ELSE <<>>)
    \o (IF 2 \in places
        THEN <<Descriptor(PyInt(999), fid, PyStr(<<"crit">>), PyStr(<<"select">>), PyInt(2))>>
        ELSE <<>>)
MixedTop(fid, places) ==
    (IF 4 \in places THEN <<Item(fid.s, PyInt(4))>> ELSE <<>>)
    \o (IF 5 \in places THEN <<Item(<<"id_">> \o fid.s, PyInt(5))>> ELSE <<>>)
MixedCard(fid, places) ==
    Card(places \cap {1, 2} # {}, MixedDescriptors(fid, places),
         3 \in places, IF 3 \in places THEN <<Item(fid.s, PyInt(3))>> ELSE <<>>,
         MixedTop(fid, places))

\* Select values of property 3 as the API serves them.
ExtractOptions ==
    <<Item(PyInt(3), <<Option(PyInt(7), PyStr(ScoreLabel(4, <<"Vysokaya">>))),
                       Option(PyInt(8), PyStr(ScoreLabel(1, <<"Nizkaya">>)))>>)>>

InitExtract ==
    /\ field_id \in ExtractFieldIds
    /\ \E v \in ExtractValues, dform \in DescriptorForms, tform \in TopForms :
       \E places \in MixedPlaces :
            shapes = Append(ThreeShapes(field_id, v, dform, tform),
                            MixedCard(field_id, places))
    /\ extracted = <<>>
    /\ upc = "idle" /\ ucard = EmptyCard /\ options = ExtractOptions /\ fidx = 0
    /\ properties = <<>> /\ select_values_cache = <<>> /\ http = <<>>
    /\ success = FALSE /\ mismatches = 0
    /\ IdleClassify /\ IdleRetry /\ IdleBatch /\ IdleWebhook /\ IdleStatus /\ IdleClient /\ IdleCache

\* The three resolvers applied to one card.
Resolved(c, fid, sv) ==
    [value |-> extract_field_value(c, fid),
     num   |-> extract_numeric_value(c, fid),
     csa   |-> CSA_extract_numeric_value(c, fid, sv),
     info  |-> _find_property_info(c, fid).found]

Extract(sv) ==
    /\ extracted = <<>>
    /\ extracted' = [i \in DOMAIN shapes |-> Resolved(shapes[i], field_id, sv)]
    /\ UNCHANGED <<field_id, shapes>>
    /\ UNCHANGED <<classifyVars, retryVars, updateVars, batchVars, webhookVars, statusVars, clientVars, cacheVars>>

\* Answers of get_select_values: a failure (None), an empty list, the
\* options with text labels, and options whose label is a JSON number or an
\* empty text.
NumberLabelled == <<Option(PyInt(7), PyInt(4)), Option(PyInt(8), PyInt(0))>>
EmptyLabelled  == <<Option(PyInt(7), PyStr(<<>>))>>
SelectResponses ==
    {NoSelectValues, SelectValues(<<>>), SelectValues(Served(PyInt(3))),
     SelectValues(NumberLabelled), SelectValues(EmptyLabelled)}

NextExtract ==
    \E sv \in SelectResponses : Extract(sv)

SpecExtract == InitExtract /\ [][NextExtract]_vars

\* C4 as stated: for every field identifier f and raw value v, the card that
\* exposes v through a custom_properties descriptor, the card that exposes it
\* through the properties mapping and the card that exposes it through a
\* top-level key give the same extract_field_value result and the same
\* extract_numeric_value number (in both modules).
C4_ShapeAgnostic ==
    extracted # <<>> =>
        /\ extracted[1].value = extracted[2].value
        /\ extracted[2].value = extracted[3].value
        /\ extracted[1].num = extracted[2].num
        /\ extracted[2].num = extracted[3].num
        /\ extracted[1].csa = extracted[2].csa
        /\ extracted[2].csa = extracted[3].csa

\* The value C25 names for a card: that of the first descriptor whose id or
\* property_id is the identifier, else that of the properties mapping, else
\* that of the top-level key, else that of the prefixed top-level key, else
\* None.
RawMatch(prop, fid) == prop.id = fid \/ prop.property_id = fid
NamedFromTop(c, fid) ==
    IF HasKey(c.top, fid.s) THEN Lookup(c.top, fid.s)
    ELSE Get(c.top, <<"id_">> \o fid.s)
NamedValueAt(c, fid, i) ==
    IF c.has_cp /\ i > 0 THEN c.custom_properties[i].value
    ELSE IF c.has_props /\ HasKey(c.props, fid.s) THEN Lookup(c.props, fid.s)
    ELSE NamedFromTop(c, fid)
NamedValue(c, fid) ==
    NamedValueAt(c, fid, FirstIdx(c.custom_properties, LAMBDA prop : RawMatch(prop, fid)))

\* C25 as stated: for the card that holds the field in several places with
\* different values, extract_field_value returns the value of the first
\* place in the order descriptors, properties mapping, top-level key,
\* prefixed top-level key, and None only when the field is in none of them.
C25_Precedence ==
    extracted # <<>> => extracted[4].value = NamedValue(shapes[4], field_id)

\* The descriptor of the first card carries the identifier without its
\* "id_" prefix, as an integer or as a string, in id or in property_id.
Unprefixed(fid) == {FieldIdClean(fid), IntOrSelf(FieldIdClean(fid))}
CarriesUnprefixed ==
    /\ StartsWithId(field_id.s)
    /\ \/ shapes[1].custom_properties[1].id \in Unprefixed(field_id)
       \/ shapes[1].custom_properties[1].property_id \in Unprefixed(field_id)

\* C24 as stated: a prefixed identifier matches a descriptor that carries the
\* unprefixed number in id or property_id: _find_property_info finds the
\* descriptor, extract_field_value returns its value, and both
\* extract_numeric_value functions give the number they give for the same
\* value stored under the identifier itself.
C24_PrefixNormalized ==
    (extracted # <<>> /\ CarriesUnprefixed) =>
        /\ extracted[1].info
        /\ extracted[1].value = shapes[1].custom_properties[1].value
        /\ extracted[1].num = extracted[2].num
        /\ extracted[1].csa = extracted[2].csa

\* A label without surrounding whitespace, in lower case, with the Cyrillic
\* look-alikes of I and T replaced by the Latin letters.
Canonical(s) == Lower(ReplaceLookalikes(Strip(s)))
VariantOf(s, label) == Canonical(s) = Canonical(label)

\* The raw value the three cards expose.
Exposed == shapes[2].props[1].v

\* C23 as stated: a text that equals a label of VALUES_SCORE up to leading
\* and trailing whitespace, letter case and the look-alikes of I and T is
\* given the score of that table entry.
C23_TolerantLabels ==
    (extracted # <<>> /\ Exposed.t = "str") =>
        \A e \in VALUES_SCORE :
            VariantOf(Exposed.s, e.label) => extracted[2].csa = Num(e.score)

\* The raw value cannot be turned into a score by float(): it is None, a
\* list, a map, or a text that is not a number.
NotANumber(value) ==
    \/ value.t \in {"none", "list", "dict"}
    \/ value.t = "str" /\ ~ParseFloat(value.s).ok

\* C16 as stated: for every card, raw value and select-values answer, both
\* extract_numeric_value functions return a number and never raise, and the
\* one of ConferenceProposalEvaluator returns 0.0 when the value is absent or
\* cannot be converted.
C16_NeverRaises ==
    extracted # <<>> =>
        \A i \in 1..3 :
            /\ ~extracted[i].csa.raised
            /\ NotANumber(extracted[i].value) => extracted[i].num = 0

(***************************************************************************)
(* Batch sweeps: handle_timer_trigger (index.py), process_all_cards        *)
(* (run_automation.py) and main (kaiten_automation.py).                    *)
(*   The three loops differ in what they log; each calls process_card      *)
(*   inside try / except Exception and tallies the result.  A card is a    *)
(*   JSON object of the API; its title, when present, is a string, so the  *)
(*   title line that process_all_cards prints before the try cannot raise. *)
(***************************************************************************)
Sweeps == {"handle_timer_trigger", "process_all_cards", "main"}

\* Largest number of cards in the fetched list.
MaxCards == 3

\* A fetched card: its id (0 when the card has none) and whether it has a
\* title.
BatchCard(i, hasTitle) == [id |-> i, has_title |-> hasTitle]
BatchCardLists ==
    UNION {[1..n -> {BatchCard(i, h) : i \in {0, 2001}, h \in BOOLEAN}] : n \in 0..MaxCards}

\* What process_card can do with a card: return True, return False, raise.
\* A card without id is skipped with False.
ProcessOutcomes(c) == IF c.id = 0 THEN {"fail"} ELSE {"ok", "fail", "raise"}

AbortOnRaise(s) == "aborted"

\* Where the loop stands after process_card raised: the except clause of the
\* iteration catches every Exception and the loop goes on.
AfterRaise(s) == "loop"

InitBatch ==
    /\ sweep \in Sweeps
    /\ cards \in BatchCardLists
    /\ idx = 1 /\ success_count = 0 /\ error_count = 0
    /\ processed = <<>> /\ bpc = "loop"
    /\ IdleClassify /\ IdleExtract /\ IdleRetry /\ IdleUpdate /\ IdleWebhook /\ IdleStatus /\ IdleClient /\ IdleCache

\* if not cards: return
NoCards ==
    /\ bpc = "loop" /\ cards = <<>>
    /\ bpc' = "done"
    /\ UNCHANGED <<sweep, cards, idx, success_count, error_count, processed>>
    /\ UNCHANGED <<classifyVars, extractVars, retryVars, updateVars, webhookVars, statusVars, clientVars, cacheVars>>

\* One iteration: process_card returned True or False.
ProcessReturned(r) ==
    /\ bpc = "loop" /\ idx \in DOMAIN cards
    /\ r \in ProcessOutcomes(cards[idx]) \ {"raise"}
    /\ processed' = Append(processed, [i |-> idx, r |-> r])
    /\ success_count' = IF r = "ok" THEN success_count + 1 ELSE success_count
    /\ error_count' = IF r = "ok" THEN error_count ELSE error_count + 1
    /\ idx' = idx + 1
    /\ UNCHANGED <<sweep, cards, bpc>>
    /\ UNCHANGED <<classifyVars, extractVars, retryVars, updateVars, webhookVars, statusVars, clientVars, cacheVars>>

\* One iteration: process_card raised.
ProcessRaised ==
    /\ bpc = "loop" /\ idx \in DOMAIN cards
    /\ "raise" \in ProcessOutcomes(cards[idx])
    /\ processed' = Append(processed, [i |-> idx, r |-> "raise"])
    /\ bpc' = AfterRaise(sweep)
    /\ error_count' = IF bpc' = "loop" THEN error_count + 1 ELSE error_count
    /\ idx' = IF bpc' = "loop" THEN idx + 1 ELSE idx
    /\ UNCHANGED <<sweep, cards, success_count>>
    /\ UNCHANGED <<classifyVars, extractVars, retryVars, updateVars, webhookVars, statusVars, clientVars, cacheVars>>

\* The loop is over: the tallies are reported.
SweepDone ==
    /\ bpc = "loop" /\ cards # <<>> /\ idx = Len(cards) + 1
    /\ bpc' = "done"
    /\ UNCHANGED <<sweep, cards, idx, success_count, error_count, processed>>
    /\ UNCHANGED <<classifyVars, extractVars, retryVars, updateVars, webhookVars, statusVars, clientVars, cacheVars>>

NextBatch ==
    \/ NoCards
    \/ \E r \in {"ok", "fail"} : ProcessReturned(r)
    \/ ProcessRaised
    \/ SweepDone

SpecBatch == InitBatch /\ [][NextBatch]_vars

\* Number of cards whose processing ended as r.
CountOf(r) == Cardinality({i \in DOMAIN processed : processed[i].r = r})

Text(k, v) == [t |-> "text", n |-> k, s |-> <<>>, items |-> <<Item("", v)>>]
Dict1(k, v) == PyDict(<<Item(k, v)>>)
EmptyDict == PyDict(<<>>)

IsDict(x) == x.t = "dict"
IsStr(x) == x.t \in {"str", "text"}

\* d.get(k) for a value that may or may not be a dict.
GetIn(d, k) == IF IsDict(d) THEN Get(d.items, k) ELSE PyNone

\* sys.getrecursionlimit(): json.loads raises RecursionError on a text nested
\* deeper than the interpreter allows.
RecursionLimit == 1000

RECURSIVE Wrap(_, _)
Wrap(k, v) == IF k = 0 THEN v ELSE Dict1("a", Wrap(k - 1, v))

\* json.loads(x) for a str x: the value, JSONDecodeError ("decode") or
\* RecursionError ("recursion").
Loaded(v) == [st |-> "ok", v |-> v]
JsonLoads(x) ==
    IF x.t = "text"
    THEN IF x.n >= RecursionLimit THEN [st |-> "recursion", v |-> PyNone]
         ELSE Loaded(Wrap(x.n, x.items[1].v))
    ELSE IF IsDigit(Strip(x.s)) THEN Loaded(PyInt(NumeralValue(Strip(x.s)[1])))
    ELSE [st |-> "decode", v |-> PyNone]

\* Ids of cards are taken to be larger than this.
IdThreshold == 1000

\* extract_id: the value as an int above the threshold, else None.
extract_id(value) ==
    CASE value.t \in {"int", "bool"} -> IF value.n > IdThreshold THEN PyInt(value.n) ELSE PyNone
      [] value.t = "str" ->
            IF ParseInt(value.s).ok /\ ParseInt(value.s).n > IdThreshold
            THEN PyInt(ParseInt(value.s).n) ELSE PyNone
      [] OTHER -> PyNone

max_depth == 5

\* find_id_recursive: the direct 'id' of a dict first, then its values in
\* order except the one under 'id'; the items of a list in order.
RECURSIVE find_id_recursive(_, _)
RECURSIVE FindInItems(_, _, _)
FirstTruthy(a, b) == IF Truthy(a) THEN a ELSE b
find_id_recursive(obj, current_depth) ==
    IF current_depth >= max_depth THEN PyNone
    ELSE IF IsDict(obj)
    THEN FirstTruthy(IF HasKey(obj.items, "id") THEN extract_id(Lookup(obj.items, "id"))
                     ELSE PyNone,
                     FindInItems(obj.items, current_depth + 1, TRUE))
    ELSE IF obj.t = "list" THEN FindInItems(obj.items, current_depth + 1, FALSE)
    ELSE PyNone
FindInItems(its, depth, skipId) ==
    IF its = <<>> THEN PyNone
    ELSE FirstTruthy(IF skipId /\ Head(its).k = "id" THEN PyNone
                     ELSE find_id_recursive(Head(its).v, depth),
                     FindInItems(Tail(its), depth, skipId))

\* The loops that look for a dict, or a str holding the JSON text of a dict,
\* under the first of the given keys: "found" with the dict, "none", or
\* "raised" when json.loads fails with an error the loop does not catch.
RECURSIVE ScanKeys(_, _)
ScanLoaded(r, rest, src) ==
    IF r.st = "recursion" THEN [st |-> "raised", v |-> PyNone]
    ELSE IF r.st = "ok" /\ IsDict(r.v) THEN [st |-> "found", v |-> r.v]
    ELSE ScanKeys(rest, src)
ScanValue(value, rest, src) ==
    IF IsStr(value) THEN ScanLoaded(JsonLoads(value), rest, src)
    ELSE IF IsDict(value) THEN [st |-> "found", v |-> value]
    ELSE ScanKeys(rest, src)
ScanKeys(keys, src) ==
    IF keys = <<>> THEN [st |-> "none", v |-> PyNone]
    ELSE IF ~HasKey(src.items, Head(keys)) THEN ScanKeys(Tail(keys), src)
    ELSE ScanValue(Lookup(src.items, Head(keys)), Tail(keys), src)

\* A stage of the handler either goes on with a value or leaves through the
\* handler's generic except clause.
Went(v) == [st |-> "ok", v |-> v]
Left == [st |-> "raised", v |-> PyNone]

\* The body as parsed from event['body'] (JSON content type, not base64).
ParseSecond(r, v) ==
    IF r.st = "recursion" THEN Left
    ELSE IF r.st = "decode" THEN Went(v)
    ELSE Went(r.v)
ParseFirst(r, raw) ==
    IF r.st = "recursion" THEN Left
    ELSE IF r.st = "decode" THEN Went(raw)
    ELSE IF IsStr(r.v) THEN ParseSecond(JsonLoads(r.v), r.v)
    ELSE Went(r.v)
ParseRaw(raw) ==
    IF raw.t = "str" /\ Strip(raw.s) = <<>> THEN Went(EmptyDict)
    ELSE IF IsStr(raw) THEN ParseFirst(JsonLoads(raw), raw)
    ELSE IF raw.t = "none" THEN Went(EmptyDict)
    ELSE Went(raw)
ParseBody(ev) ==
    ParseRaw(IF HasKey(ev.items, "body") THEN Lookup(ev.items, "body")
             ELSE Text(0, EmptyDict))

\* A body that is not a dict is replaced by a dict found in the event, or {}.
EnsureFrom(scan) ==
    IF scan.st = "raised" THEN Left
    ELSE IF scan.st = "found" THEN Went(scan.v)
    ELSE Went(EmptyDict)
EnsureDict(ev, b) ==
    IF b.st = "raised" \/ IsDict(b.v) THEN b
    ELSE EnsureFrom(ScanKeys(<<"requestBody", "payload", "data", "json">>, ev))

\* The body is replaced by the dict under its first wrapper key.
UnwrapFrom(scan, b) ==
    IF scan.st = "raised" THEN Left
    ELSE IF scan.st = "found" THEN Went(scan.v)
    ELSE b
Unwrap(b) ==
    IF b.st = "raised" THEN b
    ELSE UnwrapFrom(ScanKeys(<<"payload", "data", "json", "body", "webhook">>, b.v), b)

\* An empty body is replaced by the event without its service keys.
service_keys ==
    {"httpMethod", "path", "headers", "multiValueHeaders", "queryStringParameters",
     "multiValueQueryStringParameters", "pathParameters", "requestContext",
     "resource", "isBase64Encoded"}
NotService(it) == it.k \notin service_keys /\ it.k # "body"
EventAsBody(ev) == PyDict(SelectSeq(ev.items, NotService))
EventFallback(ev, b) ==
    IF b.st = "raised" \/ Truthy(b.v) \/ ~Truthy(EventAsBody(ev)) THEN b
    ELSE Went(EventAsBody(ev))

RawBody(ev) == EnsureDict(ev, ParseBody(ev))
BodyOf(ev) == EventFallback(ev, Unwrap(RawBody(ev)))

\* id_paths, in their order.
IdPath(body, i) ==
    CASE i = 1 -> GetIn(GetIn(GetIn(body, "data"), "old"), "id")
      [] i = 2 -> GetIn(body, "id")
      [] i = 3 -> GetIn(body, "card_id")
      [] i = 4 -> GetIn(GetIn(body, "card"), "id")
      [] i = 5 -> IF IsDict(GetIn(body, "card")) THEN PyNone ELSE GetIn(body, "card")
      [] i = 6 -> GetIn(GetIn(body, "data"), "id")
      [] i = 7 -> GetIn(GetIn(GetIn(body, "data"), "changes"), "id")
      [] i = 8 -> GetIn(GetIn(body, "payload"), "id")
      [] i = 9 -> GetIn(GetIn(body, "webhook"), "id")
IdsOnPaths(body) == [i \in 1..9 |-> extract_id(IdPath(body, i))]
PickFirst(ids, i) == IF i = 0 THEN PyNone ELSE ids[i]
FirstOf(ids) == PickFirst(ids, FirstIdx(ids, Truthy))
FromPaths(body) == FirstOf(IdsOnPaths(body))

\* A resolver without the recursive search.
NoRecursiveSearch(ev, body, card_id) == card_id

\* The recursive search of the body, then of the event.
FromRecursive(ev, body, card_id) ==
    IF Truthy(card_id) THEN card_id
    ELSE FirstTruthy(find_id_recursive(body, 0), find_id_recursive(ev, 0))

\* int(x) as the query fallback uses it; only ValueError is caught there.
IntOfQuery(c) ==
    CASE c.t = "str" -> Went(IF ParseInt(c.s).ok THEN PyInt(ParseInt(c.s).n) ELSE PyNone)
      [] c.t \in {"int", "bool"} -> Went(PyInt(c.n))
      [] OTHER -> Left
QueryCardId(c) == IF Truthy(c) THEN IntOfQuery(c) ELSE Went(c)
QueryParams(qp) == IF IsDict(qp) THEN QueryCardId(Get(qp.items, "card_id")) ELSE Left
FromQuery(ev, card_id) ==
    IF Truthy(card_id) \/ ~HasKey(ev.items, "queryStringParameters") THEN Went(card_id)
    ELSE QueryParams(PyOr(Lookup(ev.items, "queryStringParameters"), EmptyDict))

\* The keys 'id', 'card_id' and 'card' of the event itself.  The closing
\* int(event['id']) > 1000 test repeats extract_id(event['id']) and adds nothing.
EventKeyId(ev, key) ==
    IF ~HasKey(ev.items, key) THEN PyNone
    ELSE IF key = "card" /\ IsDict(Lookup(ev.items, key)) /\ HasKey(Lookup(ev.items, key).items, "id")
    THEN extract_id(Lookup(Lookup(ev.items, key).items, "id"))
    ELSE extract_id(Lookup(ev.items, key))
EventKeys == <<"id", "card_id", "card">>
IdsOnEventKeys(ev) == [i \in 1..3 |-> EventKeyId(ev, EventKeys[i])]
FromEvent(ev, q) ==
    IF q.st = "raised" \/ Truthy(q.v) THEN q
    ELSE Went(FirstOf(IdsOnEventKeys(ev)))

\* The card id the handler arrives at.
ResolveIn(ev, body) == FromEvent(ev, FromQuery(ev, FromRecursive(ev, body, FromPaths(body))))
ResolveFrom(ev, b) == IF b.st = "raised" THEN Left ELSE ResolveIn(ev, b.v)
ResolveCardId(ev) == ResolveFrom(ev, BodyOf(ev))

Response(code, err, cid) == [statusCode |-> code, error |-> err, card_id |-> cid]
NotFound == Response(400, "card_id not found in request", PyNone)
Respond(r, ok) ==
    IF r.st = "raised" THEN Response(500, "exception", PyNone)
    ELSE IF ~Truthy(r.v) THEN NotFound
    ELSE IF ok THEN Response(200, "", r.v)
    ELSE Response(500, "Failed to update card parameters", r.v)
\* The calls of update_card_parameters the handler makes.
CallsFor(r) == IF r.st = "ok" /\ Truthy(r.v) THEN <<r.v>> ELSE <<>>

(***************************************************************************)
(* SpecWebhook: one webhook delivery through handle_http_trigger           *)
(***************************************************************************)
\* What a payload may carry where an id is expected.
IdValues ==
    {PyInt(2002), PyStr(<<"2002">>), PyInt(1001), PyInt(1000), PyInt(7),
     PyStr(<<"abc">>), PyBool(TRUE), PyNone, PyFloat(Score(2002)),
     Dict1("a", Dict1("id", PyInt(2002)))}

\* The payload layouts around such a value.
PayloadsOf(v) ==
    {Dict1("id", v), Dict1("card_id", v), Dict1("card", Dict1("id", v)), Dict1("card", v),
     Dict1("data", Dict1("old", Dict1("id", v))), Dict1("data", Dict1("id", v)),
     Dict1("data", Dict1("changes", Dict1("id", v))),
     Dict1("payload", Dict1("id", v)), Dict1("webhook", Dict1("id", v)),
     Dict1("items", PyList(<<Dict1("title", PyStr(<<"abc">>)), Dict1("id", v)>>)),
     Dict1("author", v),
     PyDict(<<Item("id", PyInt(7)), Item("data", Dict1("old", Dict1("id", v)))>>),
     PyDict(<<Item("a", PyInt(7)), Item("payload", Text(0, Dict1("id", v)))>>),
     Dict1("payload", Text(RecursionLimit, Dict1("id", v))),
     PyList(<<Dict1("id", v)>>)}
\* Payloads in which a known shape stands beside a wrapper key: a top-level id
\* next to a data object, and an old record next to the id of data.
WrappedPayloads ==
    {PyDict(<<Item("id", PyInt(2002)), Item("data", Dict1("title", PyStr(<<"abc">>)))>>),
     Dict1("data", PyDict(<<Item("old", Dict1("id", PyInt(2002))), Item("id", PyInt(3003))>>))}
Payloads == UNION {PayloadsOf(v) : v \in IdValues} \cup WrappedPayloads

\* The deepest nesting of a payload that is built level by level.
MaxNest == 5
Nestings == (0..MaxNest) \cup {RecursionLimit}

\* event['body'] for a payload: the object itself, its JSON text under some
\* levels of nesting, or its text encoded twice.
DeliveriesOf(p) ==
    {p, Text(0, Text(0, p))} \cup {Text(k, p) : k \in Nestings}
Bodies ==
    UNION {{<<Item("body", b)>> : b \in DeliveriesOf(p)} : p \in Payloads}
      \cup {<<>>, <<Item("body", PyNone)>>, <<Item("body", PyStr(<<" ">>))>>,
            <<Item("body", PyStr(<<"abc">>))>>, <<Item("body", PyStr(<<"7">>))>>}

Queries ==
    {<<>>, <<Item("queryStringParameters", PyNone)>>}
      \cup {<<Item("queryStringParameters", Dict1(k, PyStr(<<n>>)))>> :
               k \in {"card_id", "id"}, n \in {"3003", "7", "abc"}}

Extras ==
    {<<>>, <<Item("id", PyInt(3003))>>, <<Item("card", Dict1("id", PyStr(<<"3003">>)))>>,
     <<Item("data", Dict1("id", PyInt(3003)))>>}

Envelope ==
    <<Item("httpMethod", PyStr(<<"POST">>)),
      Item("headers", Dict1("Content-Type", PyStr(<<"application/json">>)))>>
Events == {PyDict(Envelope \o b \o q \o x) : b \in Bodies, q \in Queries, x \in Extras}

InitWebhook ==
    /\ event \in Events
    /\ response = NoResponse
    /\ ucp_calls = <<>>
    /\ IdleClassify /\ IdleExtract /\ IdleRetry /\ IdleUpdate /\ IdleBatch /\ IdleStatus /\ IdleClient /\ IdleCache

\* handle_http_trigger(event, evaluator); ok is what update_card_parameters
\* returns when it is called.
Answer(r, ok) ==
    /\ response' = Respond(r, ok)
    /\ ucp_calls' = CallsFor(r)
HandleHttpTrigger(ok) ==
    /\ response = NoResponse
    /\ Answer(ResolveCardId(event), ok)
    /\ UNCHANGED <<event, classifyVars, extractVars, retryVars, updateVars, batchVars, statusVars, clientVars, cacheVars>>

NextWebhook == \E ok \in BOOLEAN : HandleHttpTrigger(ok)
SpecWebhook == InitWebhook /\ [][NextWebhook]_vars

Handled == response # NoResponse

\* The payload of the standard Kaiten webhook: {"data": {"old": {"id": X}}}
\* with an integer X above the threshold.
OldId(p) == GetIn(GetIn(GetIn(p, "data"), "old"), "id")
IsDataOldPayload(p) ==
    /\ OldId(p).t = "int" /\ OldId(p).n > IdThreshold
    /\ p = Dict1("data", Dict1("old", Dict1("id", OldId(p))))
DataOldDelivered == RawBody(event).st = "ok" /\ IsDataOldPayload(RawBody(event).v)

\* C6: a webhook whose body is {"data": {"old": {"id": X}}} with an integer
\* X > 1000 is answered by exactly one call update_card_parameters(X), and the
\* answer names X; the id is found by the recursive search of the unwrapped
\* body, which no known path matches.
C6_DataOldIdResolved ==
    (Handled /\ DataOldDelivered) =>
        /\ ucp_calls = <<OldId(RawBody(event).v)>>
        /\ response.card_id = OldId(RawBody(event).v)
        /\ response.statusCode # 400
        /\ FromPaths(BodyOf(event).v) = PyNone
        /\ find_id_recursive(BodyOf(event).v, 0) = OldId(RawBody(event).v)
C6_Witness ==
    /\ Handled /\ DataOldDelivered
    /\ Lookup(event.items, "body").t = "text"
    /\ ucp_calls = <<PyInt(2002)>>
    /\ response = Response(200, "", PyInt(2002))

\* C7: whatever the event and its body look like, the handler either resolves
\* a card id (and calls update_card_parameters with it) or answers 400
\* 'card_id not found in request' without any call; it never answers 500
\* before a card id is resolved.
C7_NeverServerErrorFromShape ==
    Handled => (ucp_calls # <<>> \/ (response = NotFound /\ ucp_calls = <<>>))

\* The payload as delivered holds a plausible id in one of the known shapes.
KnownShapeId(ev) == FromPaths(RawBody(ev).v)
KnownShapeDelivered == RawBody(event).st = "ok" /\ Truthy(KnownShapeId(event))

\* C27: when at least one known shape of the delivered payload holds a
\* plausible id, the handler calls update_card_parameters once, with the id of
\* the first such shape in the order data.old.id, id, card_id, card.id, card,
\* data.id, data.changes.id, payload.id, webhook.id, and never answers 400.
C27_FirstKnownShapeResolved ==
    (Handled /\ KnownShapeDelivered) =>
        /\ ucp_calls = <<KnownShapeId(event)>>
        /\ response.card_id = KnownShapeId(event)
        /\ response # NotFound

\* C30: every card id handed to update_card_parameters is an integer above
\* 1000, whichever route found it: a known path, the recursive search of body
\* or event, the card_id of the query string, or the keys of the event.
PlausibleId(v) == v.t = "int" /\ v.n > IdThreshold
C30_OnlyPlausibleIdsPassed ==
    \A i \in DOMAIN ucp_calls : PlausibleId(ucp_calls[i])

\* The depths at which obj holds a map whose 'id' is a plausible card id.
RECURSIVE IdDepths(_, _)
IdDepths(obj, d) ==
    IF obj.t \notin {"dict", "list"} THEN {}
    ELSE (IF IsDict(obj) /\ Truthy(extract_id(GetIn(obj, "id"))) THEN {d} ELSE {})
         \cup UNION {IdDepths(obj.items[i].v, d + 1) : i \in DOMAIN obj.items}
NoKnownShape == BodyOf(event).st = "ok" /\ FromPaths(BodyOf(event).v) = PyNone

\* C8: when no known path matches, the recursive search of the body finds an
\* id exactly when some map at a nesting depth below max_depth holds a
\* plausible id under the key "id".
C8_FoundWithinDepthCap ==
    (Handled /\ NoKnownShape) =>
        (Truthy(find_id_recursive(BodyOf(event).v, 0))
            <=> \E d \in IdDepths(BodyOf(event).v, 0) : d < max_depth)

(***************************************************************************)
(* CardStatusAutomation: calculate_sum and determine_status                *)
(* (kaiten_automation.py), with the configuration of test_status_logic.    *)
(***************************************************************************)
numeric_field_ids ==
    <<PyStr(<<"field_1">>), PyStr(<<"field_2">>), PyStr(<<"field_3">>)>>
status_gold   == <<"Gold">>
status_silver == <<"Silver">>
status_bronze == <<"Bronze">>
threshold_gold   == 13
threshold_silver == 9

\* calculate_sum: the sum of extract_numeric_value over numeric_field_ids; an
\* exception of extract_numeric_value escapes.
RECURSIVE SumFrom(_, _, _, _)
SumAdd(r, c, rest, sv, acc) ==
    IF r.raised THEN Raises ELSE SumFrom(c, rest, sv, acc + r.n)
SumFrom(c, ids, sv, acc) ==
    IF ids = <<>> THEN Num(acc)
    ELSE SumAdd(CSA_extract_numeric_value(c, Head(ids), sv), c, Tail(ids), sv, acc)
calculate_sum(c, sv) == SumFrom(c, numeric_field_ids, sv, 0)

DetermineStatusStrict(t) ==
    IF t > Score(threshold_gold) THEN status_gold
    ELSE IF t > Score(threshold_silver) THEN status_silver
    ELSE status_bronze

determine_status(t) ==
    IF t >= Score(threshold_gold) THEN status_gold
    ELSE IF t >= Score(threshold_silver) THEN status_silver
    ELSE status_bronze

\* Largest value of a numeric field of the drawn cards, in half units.
MaxField2 == 10

\* A field value as a card carries it: the text of an integer or of a float
\* (as create_test_card writes it), or the number itself.
FieldValues ==
    {PyStr(StrOfInt(k)) : k \in 0..(MaxField2 \div 2)}
      \cup {PyStr(StrOfFloat(h)) : h \in 0..MaxField2}
      \cup {PyInt(k) : k \in 0..(MaxField2 \div 2)}
      \cup {PyFloat(h) : h \in 0..MaxField2}

StatusDescriptor(i, v) == Descriptor(numeric_field_ids[i], PyNone, PyNone, PyNone, v)
StatusCards ==
    {Card(TRUE, <<StatusDescriptor(1, a), StatusDescriptor(2, b), StatusDescriptor(3, c),
                  Descriptor(PyStr(<<"status_field">>), PyNone, PyNone, PyNone,
                             PyStr(<<"Unknown">>))>>,
          FALSE, <<>>, <<>>) : a \in FieldValues, b \in FieldValues, c \in FieldValues}

InitStatus ==
    /\ scard \in StatusCards
    /\ card_total = Num(0)
    /\ status = <<>>
    /\ IdleClassify /\ IdleExtract /\ IdleRetry /\ IdleUpdate /\ IdleBatch /\ IdleWebhook /\ IdleClient /\ IdleCache

\* total = calculate_sum(card); determine_status(total)
StatusOf(r) == IF r.raised THEN <<"raised">> ELSE determine_status(r.n)
DetermineStatus ==
    /\ status = <<>>
    /\ card_total' = calculate_sum(scard, NoSelectValues)
    /\ status' = StatusOf(card_total')
    /\ UNCHANGED <<scard, classifyVars, extractVars, retryVars, updateVars, batchVars,
                   webhookVars, clientVars, cacheVars>>

NextStatus == DetermineStatus
SpecStatus == InitStatus /\ [][NextStatus]_vars

\* The number a field value stands for, in half units.
HalfUnits(v) ==
    CASE v.t = "int" -> 2 * v.n
      [] v.t = "float" -> v.n
      [] OTHER -> ParseFloat(v.s).n
FieldSum(c) ==
    HalfUnits(c.custom_properties[1].value) + HalfUnits(c.custom_properties[2].value)
        + HalfUnits(c.custom_properties[3].value)

ClientClasses == {"imported", "builtin"}
ClientOperations == {"get_card", "update_card", "get_cards", "get_select_values"}

\* What an operation returns from its except clause.
FailureValue(op) ==
    CASE op = "get_card" -> "None"
      [] op = "update_card" -> "False"
      [] op = "get_cards" -> "[]"
      [] OTHER -> "None"

\* The exceptions that "except requests.exceptions.RequestException" catches.
RequestExceptions == {"HTTPError"} \cup NetworkErrors

\* The built-in class: the result of the operation once
\* _make_request_with_retry has returned or raised; an exception that is not
\* a RequestException leaves the operation.
BuiltinResult(op, rp, oc) ==
    IF rp = "returned" THEN "value"
    ELSE IF oc.kind \in RequestExceptions THEN FailureValue(op)
    ELSE "raised"

BuiltinDone ==
    /\ kclient = "builtin" /\ kresult = "pending"
    /\ rpc \in {"returned", "raised"}
    /\ kresult' = BuiltinResult(kop, rpc, outcome)
    /\ UNCHANGED <<kclient, kop>>
    /\ UNCHANGED <<classifyVars, extractVars, retryVars, updateVars, batchVars,
                   webhookVars, statusVars, cacheVars>>

\* The imported class: one self.session.get / patch, raise_for_status, and
\* the except clause; st = 0 stands for a request that raised the network
\* exception e.
ImportedOutcome(st, e) ==
    IF st = 0 THEN Raised(e, 0)
    ELSE IF st >= 400 THEN RaisedHTTPError(st, 1)
    ELSE Returned(st)

ImportedRequest(st, h, e) ==
    /\ kclient = "imported" /\ kresult = "pending"
    /\ trace' = Append(trace, Request(st, h))
    /\ outcome' = ImportedOutcome(st, e)
    /\ rpc' = IF st # 0 /\ st < 400 THEN "returned" ELSE "raised"
    /\ kresult' = IF st # 0 /\ st < 400 THEN "value" ELSE FailureValue(kop)
    /\ UNCHANGED <<attempt, kclient, kop>>
    /\ UNCHANGED <<classifyVars, extractVars, updateVars, batchVars, webhookVars,
                   statusVars, cacheVars>>

InitClient ==
    /\ kclient \in ClientClasses /\ kop \in ClientOperations /\ kresult = "pending"
    /\ attempt = 0 /\ rpc = "run" /\ trace = <<>> /\ outcome = NoOutcome
    /\ IdleClassify /\ IdleExtract /\ IdleUpdate /\ IdleBatch /\ IdleWebhook /\ IdleStatus /\ IdleCache

NextClient ==
    \/ \E h \in RetryAfterValues : kclient = "builtin" /\ Retry429(h)
    \/ \E h \in RetryAfterValues : kclient = "builtin" /\ Exhausted429(h)
    \/ \E st \in ErrorStatuses : kclient = "builtin" /\ HttpError(st)
    \/ \E e \in NetworkErrors : kclient = "builtin" /\ NetworkError(e)
    \/ \E st \in OkStatuses : kclient = "builtin" /\ Success(st)
    \/ BuiltinDone
    \/ \E st \in OkStatuses \cup ErrorStatuses : ImportedRequest(st, PyNone, "none")
    \/ \E h \in RetryAfterValues : ImportedRequest(429, h, "none")
    \/ \E e \in NetworkErrors : ImportedRequest(0, PyNone, e)

SpecClient == InitClient /\ [][NextClient]_vars

\* The operation reported its failure value and its last request was
\* answered 429.
Failed429 ==
    /\ kresult = FailureValue(kop)
    /\ trace # <<>> /\ trace[Len(trace)].op = "request" /\ trace[Len(trace)].status = 429

\* C20 as stated: with either class and for each of the four operations, an
\* operation whose last answer was a 429 reports its failure value only after
\* the retries are exhausted: MAX_RETRIES_429 + 1 requests were sent, with a
\* sleep after each but the last.
C20_RetriedEverywhere ==
    Failed429 =>
        /\ Len(Requests(trace)) = MAX_RETRIES_429 + 1
        /\ Len(Sleeps(trace)) = MAX_RETRIES_429

\* The same for the built-in class alone.
BuiltinRetries == kclient = "builtin" => C20_RetriedEverywhere

(***************************************************************************)
(* SpecCache: KaitenClient.get_select_values of kaiten_automation.py and   *)
(* its per-client cache _select_values_cache, over a sequence of lookups   *)
(* on one client.                                                          *)
(***************************************************************************)
MaxLookups == 3

\* The property ids looked up, and the option lists the server may hold.
CacheKeys == {PyInt(7), PyInt(8), PyStr(<<"7">>)}
OptionA == PyDict(<<Item("id", PyInt(4)), Item("value", PyStr(<<"Zoloto">>))>>)
OptionB == PyDict(<<Item("id", PyInt(5)), Item("value", PyStr(<<"Bronza">>))>>)

\* What one GET .../select-values gives: an error that raise_for_status or
\* the session raises, or the JSON of the answer.
ServerError == [ok |-> FALSE, json |-> PyNone]
ServerJson(v) == [ok |-> TRUE, json |-> v]
ServerAnswers ==
    {ServerError,
     ServerJson(PyList(<<OptionA>>)),
     ServerJson(PyList(<<OptionA, OptionB>>)),
     ServerJson(PyList(<<>>)),
     ServerJson(Dict1("values", PyList(<<OptionB>>))),
     ServerJson(Dict1("list", PyList(<<OptionB, OptionA>>))),
     ServerJson(Dict1("error", PyStr(<<"abc">>)))}

\* _parse_select_values_response: a list as it is, the list under the first
\* known key of a dict, else the first non-empty list of dicts with an id key
\* among the values of the dict, else [].
ListKeys == <<"values", "data", "select_values", "items", "results", "options", "choices">>
OptionIdKeys == {"id", "option_id", "value_id", "select_value_id"}
IsListValue(x) == x.t = "list"
IsOptionList(v) ==
    /\ IsListValue(v) /\ v.items # <<>> /\ IsDict(v.items[1].v)
    /\ \E k \in OptionIdKeys : HasKey(v.items[1].v.items, k)
UnderListKey(its, k) == HasKey(its, k) /\ IsListValue(Lookup(its, k))
FromListKeys(its) ==
    Lookup(its, ListKeys[FirstIdx(ListKeys, LAMBDA k : UnderListKey(its, k))])
FromDictValues(its) ==
    IF \E i \in DOMAIN its : IsOptionList(its[i].v)
    THEN its[FirstIdx(its, LAMBDA it : IsOptionList(it.v))].v
    ELSE PyList(<<>>)
ParseDictResponse(its) ==
    IF \E i \in DOMAIN ListKeys : UnderListKey(its, ListKeys[i])
    THEN FromListKeys(its)
    ELSE FromDictValues(its)
_parse_select_values_response(result) ==
    IF IsListValue(result) THEN result
    ELSE IF IsDict(result) THEN ParseDictResponse(result.items)
    ELSE PyList(<<>>)

\* A client that looks nothing up in its cache.
NeverCached(cache, property_id) == FALSE
\* property_id in self._select_values_cache
InCache(cache, property_id) == HasKey(cache, property_id)

\* The values a request gives: None from the except clause.
FetchedValues(answer) ==
    IF answer.ok THEN _parse_select_values_response(answer.json) ELSE PyNone
\* Only a non-empty list is stored.
Cacheable(values) == values # PyNone /\ values.items # <<>>
StoreValues(cache, property_id, values) ==
    IF Cacheable(values) THEN SetItem(cache, property_id, values) ELSE cache

Lookup_(property_id, requested, result, before, after) ==
    [k |-> property_id, requested |-> requested, result |-> result,
     before |-> before, after |-> after]
FromCache(property_id) ==
    /\ klog' = Append(klog, Lookup_(property_id, FALSE, Lookup(kcache, property_id),
                                    kcache, kcache))
    /\ UNCHANGED kcache
FromServer(property_id, values) ==
    /\ kcache' = StoreValues(kcache, property_id, values)
    /\ klog' = Append(klog, Lookup_(property_id, TRUE, values, kcache,
                                    StoreValues(kcache, property_id, values)))

\* get_select_values(property_id); answer is what the server gives if asked.
get_select_values(property_id, answer) ==
    /\ Len(klog) < MaxLookups
    /\ IF InCache(kcache, property_id)
       THEN FromCache(property_id)
       ELSE FromServer(property_id, FetchedValues(answer))
    /\ UNCHANGED <<classifyVars, extractVars, retryVars, updateVars, batchVars,
                   webhookVars, statusVars, clientVars>>

InitCache ==
    /\ kcache = <<>> /\ klog = <<>>
    /\ IdleClassify /\ IdleExtract /\ IdleRetry /\ IdleUpdate /\ IdleBatch /\ IdleWebhook /\ IdleStatus /\ IdleClient
NextCache == \E k \in CacheKeys, answer \in ServerAnswers : get_select_values(k, answer)
SpecCache == InitCache /\ [][NextCache]_vars

\* The entry of a key in a cache, None when it has none.
CacheEntry(cache, k) == Get(cache, k)
NonEmptyList(v) == v # PyNone /\ v.items # <<>>

\* C28: once a lookup of k has returned a non-empty list, every later lookup
\* of k on the same client returns that list without an HTTP request,
\* whatever lookups of k and of other keys came in between; and a lookup of k
\* leaves the cache entries of all other keys as they were.
C28_CachedForGood ==
    /\ \A i \in DOMAIN klog : \A j \in DOMAIN klog :
          (i < j /\ klog[i].k = klog[j].k /\ NonEmptyList(klog[i].result)) =>
              (klog[j].result = klog[i].result /\ ~klog[j].requested)
    /\ \A i \in DOMAIN klog : \A k \in CacheKeys \ {klog[i].k} :
          CacheEntry(klog[i].after, k) = CacheEntry(klog[i].before, k)
\* C28 witness: key 7 answered with a list, then key 8 fetched and stored,
\* then key 7 served from the cache with the first list.
C28_Witness ==
    /\ Len(klog) = 3
    /\ klog[1].k = PyInt(7) /\ klog[1].requested /\ klog[1].result = PyList(<<OptionA>>)
    /\ klog[2].k = PyInt(8) /\ klog[2].requested /\ NonEmptyList(klog[2].result)
    /\ klog[3].k = PyInt(7) /\ ~klog[3].requested /\ klog[3].result = PyList(<<OptionA>>)
    /\ CacheEntry(kcache, PyInt(8)) = klog[2].result

====
